---- MODULE Spec2Model ----
(***************************************************************************)
(* A model of the numerical core of qha (quasi-harmonic approximation):    *)
(* the free-energy evaluators, the grid refinement, the pressure check,    *)
(* the volume-to-pressure remapper v2p, and the Calculator / QHARunner     *)
(* objects that drive them.                                                *)
(*                                                                         *)
(* Numbers.  The program computes in float64.  The model computes in exact *)
(* rational arithmetic: a number is a pair <<n, d>> with d > 0 and         *)
(* gcd(n, d) = 1, so that an equality the program reaches only up to       *)
(* rounding is an equality of the model, and every other relation (order,  *)
(* which branch is taken, which index is found) is the program's.          *)
(*                                                                         *)
(* Arrays.  A numpy array is a sequence; index i of the program is index   *)
(* i + 1 of the model.  A matrix is a sequence of rows.                    *)
(*                                                                         *)
(* Calls.  A function that returns or raises is an operator whose value is *)
(* a record [kind, value, error]: kind "ok" carries value, kind "raise"    *)
(* carries the exception's name in error.                                  *)
(***************************************************************************)
EXTENDS Integers, Sequences, FiniteSets, TLC

VARIABLES
    call,   \* a call of one function of the library: its arguments, then its outcome
    calc,   \* the Calculator object: settings, stored input, dense grid, LazyProperty caches
    run     \* QHARunner.run: its position, the tables written, the error that ended it

vars == <<call, calc, run>>

(***************************************************************************)
(* float64 arithmetic, as exact rationals                                  *)
(***************************************************************************)
Abs(x) == IF x < 0 THEN -x ELSE x

RECURSIVE GCD(_, _)
GCD(a, b) == IF b = 0 THEN a ELSE GCD(b, a % b)

\* F applied to the value v: a value that is computed once and used in
\* several places.
With(v, F(_)) == F(v)

\* The fraction n / d in lowest terms, with a positive denominator.
Rat(n, d) ==
    With(GCD(Abs(n), Abs(d)),
         LAMBDA g : IF d < 0 THEN <<(-n) \div g, (-d) \div g>> ELSE <<n \div g, d \div g>>)

RInt(n) == <<n, 1>>

RZero == RInt(0)

ROne == RInt(1)

RNeg(x) == <<-x[1], x[2]>>

RAdd(x, y) ==
    With(GCD(x[2], y[2]),
         LAMBDA g : Rat(x[1] * (y[2] \div g) + y[1] * (x[2] \div g), (x[2] \div g) * y[2]))

RSub(x, y) == RAdd(x, RNeg(y))

\* The factors are in lowest terms, and so is the product once the common
\* divisors across the two fractions are taken out.
RMulBy(x, y, g1, g2) ==
    <<(x[1] \div g1) * (y[1] \div g2), (x[2] \div g2) * (y[2] \div g1)>>

RMul(x, y) == RMulBy(x, y, GCD(Abs(x[1]), y[2]), GCD(Abs(y[1]), x[2]))

RInv(y) == IF y[1] < 0 THEN <<-y[2], -y[1]>> ELSE <<y[2], y[1]>>

\* x / y for y # 0; every caller tests the divisor first.
RDiv(x, y) == RMul(x, RInv(y))

RLt(x, y) == x[1] * y[2] < y[1] * x[2]

RLe(x, y) == x[1] * y[2] <= y[1] * x[2]

RECURSIVE RSum(_)
RSum(s) == IF s = <<>> THEN RZero ELSE RAdd(s[1], RSum(Tail(s)))

RMin(x, y) == IF RLe(x, y) THEN x ELSE y

RMax(x, y) == IF RLe(y, x) THEN x ELSE y

RECURSIVE RMinSeq(_)
RMinSeq(s) == IF Len(s) = 1 THEN s[1] ELSE RMin(s[1], RMinSeq(Tail(s)))

RECURSIVE RMaxSeq(_)
RMaxSeq(s) == IF Len(s) = 1 THEN s[1] ELSE RMax(s[1], RMaxSeq(Tail(s)))

\* An array is held by value: the sequence f with every element computed.
Arr(f) == f \o <<>>

\* A vector or a matrix of integers, as the rationals they are.
RVec(v) == Arr([j \in 1..Len(v) |-> RInt(v[j])])

RMat(m) == Arr([i \in 1..Len(m) |-> RVec(m[i])])

(***************************************************************************)
(* Outcomes of a call                                                      *)
(***************************************************************************)
Ok(v) == [kind |-> "ok", value |-> v, error |-> ""]

Raise(e) == [kind |-> "raise", value |-> <<>>, error |-> e]

\* The outcome of a computation whose float64 values are all NaN.
NaN == [kind |-> "nan", value |-> <<>>, error |-> ""]

\* A loop that computes outs[j] for j = from, ..., Len: it ends at the first
\* raise, and what follows is not computed; else NaN if a row is NaN, else Ok
\* of the values.
Joined(out, rest) ==
    IF rest.kind = "raise" THEN rest
    ELSE IF out.kind = "nan" \/ rest.kind = "nan" THEN NaN
    ELSE Ok(<<out.value>> \o rest.value)

RECURSIVE LoopFrom(_, _, _)
LoopFrom(outs, from, len) ==
    IF from > len THEN Ok(<<>>)
    ELSE With(outs[from],
              LAMBDA out : IF out.kind = "raise" THEN out
                           ELSE Joined(out, LoopFrom(outs, from + 1, len)))

\* What follows a call that can raise: the raise, or F of the value it returned.
Then(out, F(_)) == IF out.kind = "ok" THEN F(out.value) ELSE out

(***************************************************************************)
(* Python / numpy indexing                                                 *)
(***************************************************************************)
\* a[start:stop] of a one-dimensional array: a negative bound counts from the
\* end, a bound past an end is clipped, an empty range gives an empty array.
Clip(i, n) == IF i < 0 THEN 0 ELSE IF i > n THEN n ELSE i

FromEnd(i, n) == IF i < 0 THEN i + n ELSE i

Between0(a, lo, hi) == IF hi <= lo THEN <<>> ELSE SubSeq(a, lo + 1, hi)

PySlice(a, start, stop) ==
    Between0(a, Clip(FromEnd(start, Len(a)), Len(a)), Clip(FromEnd(stop, Len(a)), Len(a)))

(***************************************************************************)
(* tools.py: the bracketing search                                         *)
(***************************************************************************)
\* The while loop of find_nearest / vectorized_find_nearest.
RECURSIVE Bisect(_, _, _, _)
Bisect(array, value, j_low, j_up) ==
    IF j_up - j_low > 1
    THEN IF RLe(array[(j_up + j_low) \div 2 + 1], value)
         THEN Bisect(array, value, (j_up + j_low) \div 2, j_up)
         ELSE Bisect(array, value, j_low, (j_up + j_low) \div 2)
    ELSE j_low

\* One element of vectorized_find_nearest: the two range tests write result[i],
\* the search that follows them always runs and overwrites it.
vectorized_find_nearest_at(array, value) == Bisect(array, value, 0, Len(array) - 1)

vectorized_find_nearest(array, values) ==
    Arr([i \in 1..Len(values) |-> vectorized_find_nearest_at(array, values[i])])

\* find_nearest that answers the last index for a value at or above the range.
find_nearest_up_to_last(array, value) ==
    IF RLe(value, array[1]) THEN 0
    ELSE IF RLe(array[Len(array)], value) THEN Len(array) - 1
    ELSE Bisect(array, value, 0, Len(array) - 1)

\* find_nearest(array, value)
find_nearest(array, value) ==
    IF RLe(value, array[1]) THEN 0
    ELSE IF RLe(array[Len(array)], value) THEN Len(array) - 2
    ELSE Bisect(array, value, 0, Len(array) - 1)

(***************************************************************************)
(* tools.py: lagrange3                                                     *)
(***************************************************************************)
\* A term divided by one of its two differences only.
Lagrange3Term_divided_once(x, xi, a, b, yi) ==
    RMul(RDiv(RMul(RSub(x, a), RSub(x, b)), RSub(xi, a)), yi)

\* (x - a) * (x - b) / (xi - a) / (xi - b) * yi
Lagrange3Term(x, xi, a, b, yi) ==
    RMul(RDiv(RDiv(RMul(RSub(x, a), RSub(x, b)), RSub(xi, a)), RSub(xi, b)), yi)

\* lagrange3(xs, ys)(x)
lagrange3(xs, ys, x) ==
    IF ~(Len(xs) = Len(ys) /\ Len(ys) = 3) THEN Raise("ValueError")
    ELSE IF Cardinality({xs[i] : i \in 1..3}) < 3 THEN Raise("ValueError")
    ELSE Ok(RSum(<<Lagrange3Term(x, xs[1], xs[2], xs[3], ys[1]),
                   Lagrange3Term(x, xs[2], xs[1], xs[3], ys[2]),
                   Lagrange3Term(x, xs[3], xs[1], xs[2], ys[3])>>))

(***************************************************************************)
(* v2p.py                                                                  *)
(***************************************************************************)
Distinct4(x0, x1, x2, x3) ==
    /\ x0 # x1 /\ x0 # x2 /\ x0 # x3
    /\ x1 # x2 /\ x1 # x3
    /\ x2 # x3

\* One term of the Lagrange polynomial: (x-a)(x-b)(x-c) / (xi-a) / (xi-b) / (xi-c) * yi.
LagrangeTerm(x, xi, a, b, c, yi) ==
    RMul(RDiv(RDiv(RDiv(RMul(RMul(RSub(x, a), RSub(x, b)), RSub(x, c)),
                        RSub(xi, a)), RSub(xi, b)), RSub(xi, c)), yi)

\* The sum of the four terms, the nodes and the values given as arrays.
Lagrange4Sum(x, xs, ys) ==
    RSum(Arr([i \in 1..4 |->
                 LagrangeTerm(x, xs[i], xs[IF i = 1 THEN 2 ELSE 1], xs[IF i <= 2 THEN 3 ELSE 2],
                              xs[IF i <= 3 THEN 4 ELSE 3], ys[i])]))

\* v2p._lagrange4 is compiled by numba.jit in nopython mode, whose division by zero
\* raises ZeroDivisionError.
v2p_lagrange4(x, x0, x1, x2, x3, y0, y1, y2, y3) ==
    IF ~Distinct4(x0, x1, x2, x3) THEN Raise("ZeroDivisionError")
    ELSE Ok(Lagrange4Sum(x, <<x0, x1, x2, x3>>, <<y0, y1, y2, y3>>))

\* The row padded by its second and its last but one point.
ExtendRow_by_neighbours(row) == <<row[2]>> \o row \o <<row[Len(row) - 1]>>

\* np.hstack((row[3], row, row[-4])): the row padded by one point on each end.
ExtendRow(row) == <<row[4]>> \o row \o <<row[Len(row) - 3]>>

\* result[i, j] of v2p, for row i and column j (both from 0).
\* x1, x2, x3, x4 = xs and f1, f2, f3, f4 = fs, then the interpolation at x.
Unpacked(x, xs, fs) ==
    IF Len(xs) # 4 THEN Raise("ValueError")
    ELSE v2p_lagrange4(x, xs[1], xs[2], xs[3], xs[4], fs[1], fs[2], fs[3], fs[4])

\* result[i, j] of v2p, for row i and column j (both from 0); k is rs[j].
v2p_cell(extended_f_i, extended_p_i, rs, desired_pressures, j) ==
    IF j >= Len(rs) THEN Raise("IndexError")
    ELSE Unpacked(desired_pressures[j + 1],
                  PySlice(extended_p_i, rs[j + 1] - 1, rs[j + 1] + 3),
                  PySlice(extended_f_i, rs[j + 1] - 1, rs[j + 1] + 3))

\* The loop over the columns of row i, on the padded rows and the indices rs.
v2p_columns(extended_f_i, extended_p_i, rs, desired_pressures, v_amount) ==
    LoopFrom([j \in 1..v_amount |->
                 v2p_cell(extended_f_i, extended_p_i, rs, desired_pressures, j - 1)],
             1, v_amount)

v2p_row(f_i, p_i, desired_pressures, v_amount) ==
    v2p_columns(ExtendRow(f_i), ExtendRow(p_i),
                vectorized_find_nearest(ExtendRow(p_i), desired_pressures),
                desired_pressures, v_amount)

\* v2p(func_of_t_v, p_of_t_v, desired_pressures): the result has the shape of
\* func_of_t_v, and column j is evaluated at desired_pressures[j].
v2p(func_of_t_v, p_of_t_v, desired_pressures) ==
    IF Len(func_of_t_v[1]) < 4 THEN Raise("IndexError")
    ELSE LoopFrom([i \in 1..Len(func_of_t_v) |->
                      v2p_row(func_of_t_v[i], p_of_t_v[i], desired_pressures,
                              Len(func_of_t_v[1]))],
                  1, Len(func_of_t_v))

(***************************************************************************)
(* Matrices of rationals                                                   *)
(***************************************************************************)
RECURSIVE RPow(_, _)
RPow(x, k) == IF k = 0 THEN ROne ELSE RMul(x, RPow(x, k - 1))

RDot(u, v) == RSum(Arr([i \in 1..Len(u) |-> RMul(u[i], v[i])]))

Transpose(m) == Arr([c \in 1..Len(m[1]) |-> Arr([r \in 1..Len(m) |-> m[r][c]])])

MatVec(m, v) == Arr([r \in 1..Len(m) |-> RDot(m[r], v)])

\* a times the matrix whose transpose is b_t.
MatMulT(a, b_t) == Arr([r \in 1..Len(a) |-> Arr([c \in 1..Len(b_t) |-> RDot(a[r], b_t[c])])])

MatMul(a, b) == MatMulT(a, Transpose(b))

DropAt(s, k) == SubSeq(s, 1, k - 1) \o SubSeq(s, k + 1, Len(s))

RECURSIVE Det(_)
Det(m) ==
    IF Len(m) = 1 THEN m[1][1]
    ELSE RSum(Arr([c \in 1..Len(m) |->
                  RMul(IF c % 2 = 1 THEN m[1][c] ELSE RNeg(m[1][c]),
                       Det(Arr([r \in 1..(Len(m) - 1) |-> DropAt(m[r + 1], c)])))]))

ReplaceCol(m, k, v) ==
    Arr([r \in 1..Len(m) |-> Arr([c \in 1..Len(m) |-> IF c = k THEN v[r] ELSE m[r][c]])])

\* np.gradient of a vector of two or more points with unit spacing: centered
\* differences inside, one-sided differences at the two ends.
gradient(f) ==
    Arr([i \in 1..Len(f) |->
            IF i = 1 THEN RSub(f[2], f[1])
            ELSE IF i = Len(f) THEN RSub(f[i], f[i - 1])
            ELSE RMul(<<1, 2>>, RSub(f[i + 1], f[i - 1]))])

\* np.linspace(start, stop, num)
linspace(start, stop, num) ==
    IF num = 1 THEN <<start>>
    ELSE Arr([i \in 1..num |-> RAdd(start, RMul(Rat(i - 1, num - 1), RSub(stop, start)))])

(***************************************************************************)
(* fitting.py                                                              *)
(***************************************************************************)
\* np.vander(xs, n, increasing=True)
Vander(xs, n) == Arr([i \in 1..Len(xs) |-> Arr([k \in 1..n |-> RPow(xs[i], k - 1)])])

\* a = inv(X^T X) X^T ys, new_y = vander(new_xs) a.  The inverse is applied by
\* Cramer's rule; inv raises LinAlgError on a singular matrix, and the product
\* with ys raises ValueError when ys has not one value per x.
\* The solution a of xtx a = xty, d being the determinant of xtx.
Solved(xtx, xty, d) ==
    Arr([k \in 1..Len(xtx) |-> RDiv(Det(ReplaceCol(xtx, k, xty)), d)])

Fitted(a, new_xx) == Ok([a |-> a, new_y |-> MatVec(new_xx, a)])

NormalEquations(xx_t, ys, new_xx) ==
    With(MatMulT(xx_t, xx_t),
         LAMBDA xtx :
             With(Det(xtx),
                  LAMBDA d : IF d = RZero THEN Raise("LinAlgError")
                             ELSE IF Len(ys) # Len(xx_t[1]) THEN Raise("ValueError")
                             ELSE Fitted(Solved(xtx, MatVec(xx_t, ys), d), new_xx)))

polynomial_least_square_fitting(xs, ys, new_xs, order) ==
    NormalEquations(Transpose(Vander(xs, order + 1)), ys, Vander(new_xs, order + 1))

NewY(fit) == Ok(fit.new_y)

\* The new_y of a fit, or its raise.
FittedValues(xs, ys, new_xs, order) ==
    Then(polynomial_least_square_fitting(xs, ys, new_xs, order), NewY)

\* One fit per temperature row of free_energies, evaluated on strains_dense.
birch_murnaghan_finite_strain_fitting(strains_sparse, free_energies, strains_dense, order) ==
    LoopFrom([i \in 1..Len(free_energies) |->
                   FittedValues(strains_sparse, free_energies[i], strains_dense, order)], 1, Len(free_energies))

(***************************************************************************)
(* grid_interpolation.py: the Eulerian strain                              *)
(*                                                                         *)
(* x^(2/3) and y^(-3/2) have no rational values in general.  The model     *)
(* keeps the two formulas and replaces the pair of exponents (2/3, -3/2)   *)
(* by the pair (1, -1): like the original pair, two power laws of positive *)
(* numbers, the first increasing, the second decreasing, with              *)
(* PowNeg32(Pow23(x)) = 1 / x.                                             *)
(***************************************************************************)
Pow23(x) == x

PowNeg32(y) == RDiv(ROne, y)

\* 1 / 2 * ((v0 / v) ** (2 / 3) - 1)
calculate_eulerian_strain(v0, v) == RMul(<<1, 2>>, RSub(Pow23(RDiv(v0, v)), ROne))

\* from_eulerian_strain of half the stretch: v0 * (f + 1) ** (-3 / 2)
from_eulerian_strain_of_half(v0, f) == RMul(v0, PowNeg32(RAdd(f, ROne)))

\* v0 * (2 * f + 1) ** (-3 / 2)
from_eulerian_strain(v0, f) == RMul(v0, PowNeg32(RAdd(RMul(RInt(2), f), ROne)))

StrainsOf(v0, vs) == Arr([i \in 1..Len(vs) |-> calculate_eulerian_strain(v0, vs[i])])

(***************************************************************************)
(* statmech.py, single_configuration.py                                    *)
(*                                                                         *)
(* Units are chosen so that the Boltzmann constant K and the conversion    *)
(* HBAR from a frequency to an energy are small integers in the ratio      *)
(* HBAR / K = 3 / 2 (1.44 K cm in the program).                            *)
(*                                                                         *)
(* exp and log are replaced by rational functions with small denominators  *)
(* that agree with them where the program's float64 results are exact      *)
(* (exp(0) = 1, log(1) = 0), that never decrease, and that have their      *)
(* signs: FExp(x) is 2 to the power x rounded down, FLn(y) is y - 1.       *)
(* FExp(x) is 0 for x <= -ExpUnderflow, the point from which 1 - FExp(x)   *)
(* is 1, as 1 - exp(x) is 1 in float64 from x = -37 on.                    *)
(***************************************************************************)
K == 2

HBAR == 3

ExpUnderflow == 8

\* The least integer not below the rational x >= 0.
Ceil(x) == (x[1] + x[2] - 1) \div x[2]

\* exp(x), x <= 0
FExp(x) == IF RLe(x, RInt(-ExpUnderflow)) THEN RZero ELSE Rat(1, 2 ^ Ceil(RNeg(x)))

\* log(y), y > 0
FLn(y) == RSub(y, ROne)

\* kt * np.log(1 - np.exp(-hw / kt)), hw > 0, kt >= 0.  At kt = 0 the quotient
\* is inf under numpy's error model, the exponential 0 and the product 0.
ThermalTerm(hw, kt) ==
    IF kt = RZero THEN RZero
    ELSE RMul(kt, FLn(RSub(ROne, FExp(RNeg(RDiv(hw, kt))))))

\* 1 / 2 * hw + kt * np.log(1 - np.exp(-hw / kt))
HarmonicOscillator(hw, kt) == RAdd(RMul(<<1, 2>>, hw), ThermalTerm(hw, kt))

\* ho_free_energy without its first branch: every frequency is an oscillator.
ho_free_energy_of_every_frequency(temperature, frequency) ==
    HarmonicOscillator(RMul(RInt(HBAR), frequency), RMul(RInt(K), temperature))

ho_free_energy(temperature, frequency) ==
    IF RLe(frequency, RZero) THEN RZero
    ELSE HarmonicOscillator(RMul(RInt(HBAR), frequency), RMul(RInt(K), temperature))

\* The test passed by one element that is not negative.
SomeNonNegative(v) == \E i \in 1..Len(v) : RLe(RZero, v[i])

\* np.all(np.greater_equal(v, 0))
AllNonNegative(v) == \A i \in 1..Len(v) : RLe(RZero, v[i])

\* np.dot(ho_free_energy(temperature, frequencies).sum(axis=2), scaled_q_weights)
vibrational_energies(temperature, frequencies, scaled_q_weights) ==
    Arr([v \in 1..Len(frequencies) |->
            RDot(Arr([q \in 1..Len(frequencies[v]) |->
                         RSum(Arr([s \in 1..Len(frequencies[v][q]) |->
                                      ho_free_energy(temperature, frequencies[v][q][s])]))]),
                 scaled_q_weights)])

\* q_weights / total
Scaled(q_weights, total) == Arr([q \in 1..Len(q_weights) |-> RDiv(q_weights[q], total)])

AddVectors(a, b) == Arr([v \in 1..Len(a) |-> RAdd(a[v], b[v])])

\* free_energy without its static_only branch: the vibrational part is always added.
free_energy_always_vibrational(temperature, q_weights, static_energies, frequencies, static_only) ==
    IF ~AllNonNegative(q_weights) THEN Raise("ValueError")
    ELSE IF RSum(q_weights) = RZero THEN NaN
    ELSE Ok(AddVectors(static_energies,
                       vibrational_energies(temperature, frequencies,
                                            Scaled(q_weights, RSum(q_weights)))))

\* free_energy(temperature, q_weights, static_energies, frequencies, static_only).
\* Weights that sum to 0 are normalised to 0 / 0.
free_energy(temperature, q_weights, static_energies, frequencies, static_only) ==
    IF ~AllNonNegative(q_weights) THEN Raise("ValueError")
    ELSE IF static_only THEN Ok(static_energies)
    ELSE IF RSum(q_weights) = RZero THEN NaN
    ELSE Ok(AddVectors(static_energies,
                       vibrational_energies(temperature, frequencies,
                                            Scaled(q_weights, RSum(q_weights)))))

(***************************************************************************)
(* unit_conversion.py                                                      *)
(*                                                                         *)
(* Pressures are in units in which one Ry / bohr^3 is RyB3InGPa GPa.       *)
(***************************************************************************)
RyB3InGPa == 2

gpa_to_ry_b3(value) == RDiv(value, RInt(RyB3InGPa))

ry_b3_to_gpa(value) == RMul(value, RInt(RyB3InGPa))

(***************************************************************************)
(* grid_interpolation.py: VolumesExpander, FinerGrid                        *)
(***************************************************************************)
\* np.linspace(s_lower, s_upper, num) of the strains of v_upper and v_lower.
StrainGrid(v_max, v_lower, v_upper, num) ==
    linspace(calculate_eulerian_strain(v_max, v_upper),
             calculate_eulerian_strain(v_max, v_lower), num)

\* The strains and the volumes they stand for.
VolumesAt(v_max, strains) ==
    [strains |-> strains,
     out_volumes |-> Arr([i \in 1..Len(strains) |-> from_eulerian_strain(v_max, strains[i])])]

\* interpolate_volumes with the ratio applied the wrong way round: the grid
\* contracts as the ratio grows.
interpolate_volumes_contracting(in_volumes, out_volumes_num, ratio) ==
    VolumesAt(RMaxSeq(in_volumes),
              StrainGrid(RMaxSeq(in_volumes), RMul(RMinSeq(in_volumes), ratio),
                         RDiv(RMaxSeq(in_volumes), ratio), out_volumes_num))

\* VolumesExpander(in_volumes, out_volumes_num, ratio).interpolate_volumes():
\* the strains and out_volumes it leaves in the object, for ratio > 0.
interpolate_volumes(in_volumes, out_volumes_num, ratio) ==
    VolumesAt(RMaxSeq(in_volumes),
              StrainGrid(RMaxSeq(in_volumes), RDiv(RMinSeq(in_volumes), ratio),
                         RMul(RMaxSeq(in_volumes), ratio), out_volumes_num))

\* -a / b, element by element
NegQuotient(a, b) == Arr([i \in 1..Len(a) |-> RNeg(RDiv(a[i], b[i]))])

\* np.argmin(mask) of a vector of booleans: the first index (from 0) that
\* holds False, 0 when every element is True.
ArgminOfMask(mask) ==
    IF \A i \in 1..Len(mask) : mask[i] THEN 0
    ELSE (CHOOSE i \in 1..Len(mask) : ~mask[i] /\ \A j \in 1..(i - 1) : mask[j]) - 1

InitialRatio == <<29, 20>>

\* finer_volumes[np.argmin(p_v_tmax < p_desire)] / max(volumes)
FinalRatio(p_v_tmax, p, finer_volumes, v_max) ==
    RDiv(finer_volumes[ArgminOfMask(Arr([i \in 1..Len(p_v_tmax) |-> RLt(p_v_tmax[i], p)])) + 1],
         v_max)

\* approach_to_best_ratio once the volumes are expanded to vr.
ApproachOn(p_desire, option, volumes, free_energies, vr) ==
    Then(FittedValues(StrainsOf(volumes[1], volumes), free_energies, vr.strains, option),
         LAMBDA f_v_tmax :
             Ok(FinalRatio(NegQuotient(gradient(f_v_tmax), gradient(vr.out_volumes)),
                           gpa_to_ry_b3(p_desire), vr.out_volumes, RMaxSeq(volumes))))

\* FinerGrid.approach_to_best_ratio(volumes, free_energies, initial_ratio), for
\* a FinerGrid of fields p_desire, dense_volumes_amount and option.
approach_to_best_ratio(p_desire, dense_volumes_amount, option, volumes, free_energies, initial_ratio) ==
    ApproachOn(p_desire, option, volumes, free_energies,
               interpolate_volumes(volumes, dense_volumes_amount, initial_ratio))

\* if new_ratio < 1.0: new_ratio = 1.0, in the branch of a ratio of None.
AtLeastOne(ratio, found) == IF ratio = <<>> /\ RLt(found, ROne) THEN ROne ELSE found

\* The end of refine_grid, once the volumes are expanded to vr by new_ratio.
RefinedOn(option, volumes, free_energies, new_ratio, vr) ==
    Then(birch_murnaghan_finite_strain_fitting(StrainsOf(volumes[1], volumes), free_energies,
                                               vr.strains, option),
         LAMBDA f_tv_bfm : Ok([finer_volumes |-> vr.out_volumes, f_tv_bfm |-> f_tv_bfm,
                               new_ratio |-> new_ratio]))

RefinedBy(dense_volumes_amount, option, volumes, free_energies, new_ratio) ==
    RefinedOn(option, volumes, free_energies, new_ratio,
              interpolate_volumes(volumes, dense_volumes_amount, new_ratio))

\* FinerGrid.refine_grid(volumes, free_energies, ratio); ratio is <<>> for
\* None and <<r>> for a number r.
refine_grid(p_desire, dense_volumes_amount, option, volumes, free_energies, ratio) ==
    Then(IF ratio # <<>> THEN Ok(ratio[1])
         ELSE approach_to_best_ratio(p_desire, dense_volumes_amount, option, volumes,
                                     free_energies[Len(free_energies)], InitialRatio),
         LAMBDA found : RefinedBy(dense_volumes_amount, option, volumes, free_energies,
                                  AtLeastOne(ratio, found)))

(***************************************************************************)
(* tools.py: calibrate_energy_on_reference                                 *)
(***************************************************************************)
\* Each configuration's energies are fitted in the strain of its own volumes
\* and the fit is evaluated on the volumes of the first configuration.
calibrate_energy_on_reference(volumes_before_calibration, energies_before_calibration, order) ==
    LET volumes_for_reference == volumes_before_calibration[1]
    IN  LoopFrom([i \in 1..Len(volumes_before_calibration) |->
            FittedValues(StrainsOf(volumes_before_calibration[i][1], volumes_before_calibration[i]),
                         energies_before_calibration[i],
                         StrainsOf(volumes_before_calibration[i][1], volumes_for_reference),
                         order)], 1, Len(volumes_before_calibration))

(***************************************************************************)
(* multi_configurations                                                    *)
(***************************************************************************)
\* scipy.special.logsumexp(a, b=b): log(sum(b * exp(a - max(a)))) + max(a),
\* for weights b of positive sum.
LogSumExpAbove(a, b, a_max) ==
    RAdd(FLn(RSum(Arr([j \in 1..Len(a) |-> RMul(b[j], FExp(RSub(a[j], a_max)))]))), a_max)

logsumexp(a, b) == LogSumExpAbove(a, b, RMaxSeq(a))

\* same_phonon_dos.FreeEnergy.__init__: the temperature the object computes at.
FreeEnergy_temperature(temperature) ==
    IF RLt(temperature, <<1, 1000000>>) THEN <<1, 1000000>> ELSE temperature

\* -kt * logsumexp(-energies / kt, axis=0, b=degeneracies), volume by volume
BoltzmannSum(kt, degeneracies, energies) ==
    Arr([v \in 1..Len(energies[1]) |->
            RMul(RNeg(kt),
                 logsumexp(Arr([c \in 1..Len(energies) |-> RDiv(RNeg(energies[c][v]), kt)]),
                           degeneracies))])

\* same_phonon_dos.FreeEnergy.static_part, from the aligned static energies.
FreeEnergy_static_part(temperature, degeneracies, aligned) ==
    BoltzmannSum(RMul(RInt(K), temperature), degeneracies, aligned)

\* static_part, or static_part + harmonic_part
FreeEnergy_total(t, degeneracies, q_weights, aligned, frequencies, static_only) ==
    IF static_only THEN Ok(FreeEnergy_static_part(t, degeneracies, aligned))
    ELSE Ok(AddVectors(FreeEnergy_static_part(t, degeneracies, aligned),
                       vibrational_energies(t, frequencies, Scaled(q_weights, RSum(q_weights)))))

\* same_phonon_dos.FreeEnergy(...).get_free_energies()
FreeEnergy_get_free_energies(temperature, degeneracies, q_weights, static_energies, volumes, frequencies, static_only, order) ==
    IF ~AllNonNegative(degeneracies) THEN Raise("ValueError")
    ELSE IF ~AllNonNegative(q_weights) THEN Raise("ValueError")
    ELSE IF RSum(q_weights) = RZero THEN NaN
    ELSE Then(calibrate_energy_on_reference(volumes, static_energies, order),
              LAMBDA aligned : FreeEnergy_total(FreeEnergy_temperature(temperature),
                                                degeneracies, q_weights, aligned, frequencies,
                                                static_only))

\* The temperature of 2 K for the temperatures below 0.1 K.
PartitionFunction_temperature_of_two(temperature) ==
    IF RLt(temperature, <<1, 10>>) THEN RInt(2) ELSE temperature

\* different_phonon_dos.PartitionFunction.__init__: the temperature the object
\* computes at.
PartitionFunction_temperature(temperature) ==
    IF RLt(temperature, <<1, 10>>) THEN ROne ELSE temperature

\* mpmath.exp and mpmath.log at the working precision of 500 bits: a number
\* too large for float64 is kept as the exponent it was made from.
BigExp(d) == [exp_of |-> d]

BigLog(z) == z.exp_of

\* partition_functions_for_all_configurations summed over the configurations:
\* exp(logsumexp(-aligned / kt, axis=0, b=degeneracies)), volume by volume.
partition_functions(kt, degeneracies, aligned) ==
    Arr([v \in 1..Len(aligned[1]) |->
            BigExp(logsumexp(Arr([c \in 1..Len(aligned) |-> RDiv(RNeg(aligned[c][v]), kt)]),
                             degeneracies))])

\* -kt * log(z), volume by volume
FromPartitionFunctions(kt, z) == Arr([v \in 1..Len(z) |-> RMul(RNeg(kt), BigLog(z[v]))])

\* The free energies of the configurations, one call of free_energy each.
unaligned_free_energies(t, q_weights, static_energies, frequencies, static_only) ==
    Arr([c \in 1..Len(static_energies) |->
            free_energy(t, q_weights[c], static_energies[c], frequencies[c], static_only)])

PartitionFunction_aligned(kt, degeneracies, volumes, order, unaligned) ==
    IF \E c \in 1..Len(unaligned) : unaligned[c].kind = "nan" THEN NaN
    ELSE Then(calibrate_energy_on_reference(
                  volumes, Arr([c \in 1..Len(unaligned) |-> unaligned[c].value]), order),
              LAMBDA aligned : Ok(FromPartitionFunctions(
                                      kt, partition_functions(kt, degeneracies, aligned))))

\* different_phonon_dos.PartitionFunction(...).get_free_energies()
PartitionFunction_get_free_energies(temperature, degeneracies, q_weights, static_energies, volumes, frequencies, static_only, order) ==
    IF ~AllNonNegative(degeneracies) THEN Raise("ValueError")
    ELSE IF \E c \in 1..Len(q_weights) : ~AllNonNegative(q_weights[c]) THEN Raise("ValueError")
    ELSE PartitionFunction_aligned(
             RMul(RInt(K), PartitionFunction_temperature(temperature)), degeneracies, volumes,
             order,
             unaligned_free_energies(PartitionFunction_temperature(temperature), q_weights,
                                     static_energies, frequencies, static_only))

(***************************************************************************)
(* multi_configurations: what the constructors of the combiners check      *)
(***************************************************************************)
\* A numpy array as its shape and its elements in row-major order.
NdArray(shape, flat) == [shape |-> shape, flat |-> flat]

ndim(a) == Len(a.shape)

\* np.all(np.greater_equal(a, 0))
AllGreaterEqual0(a) == \A i \in 1..Len(a.flat) : RLe(RZero, a.flat[i])

\* different_phonon_dos.PartitionFunction.__init__, up to the last check.
PartitionFunction_init(degeneracies, q_weights, static_energies, frequencies) ==
    IF ~AllGreaterEqual0(degeneracies) THEN Raise("ValueError")
    ELSE IF ~AllGreaterEqual0(q_weights) THEN Raise("ValueError")
    ELSE IF ndim(frequencies) # 4 THEN Raise("ValueError")
    ELSE IF ndim(static_energies) # 2 THEN Raise("ValueError")
    ELSE Ok(<<>>)

\* same_phonon_dos.FreeEnergy.__init__, up to the last check: the static
\* energies are stored as they are.
FreeEnergy_init(degeneracies, q_weights, static_energies, frequencies) ==
    IF ~AllGreaterEqual0(degeneracies) THEN Raise("ValueError")
    ELSE IF ~AllGreaterEqual0(q_weights) THEN Raise("ValueError")
    ELSE IF ndim(frequencies) # 3 THEN Raise("ValueError")
    ELSE Ok(<<>>)

(***************************************************************************)
(* tools.py: arange, is_monotonic_decreasing                               *)
(***************************************************************************)
arange(start, num, step) == Arr([n \in 1..num |-> RAdd(start, RMul(step, RInt(n - 1)))])

\* np.all(np.diff(array) <= 0)
is_monotonic_decreasing(array) ==
    \A i \in 1..(Len(array) - 1) : RLe(RSub(array[i + 1], array[i]), RZero)

(***************************************************************************)
(* thermodynamics.py                                                       *)
(***************************************************************************)
\* -np.gradient(free_energies, axis=1) / np.gradient(vs)
pressure(vs, free_energies) ==
    Arr([i \in 1..Len(free_energies) |-> NegQuotient(gradient(free_energies[i]), gradient(vs))])

Column(m, j) == Arr([i \in 1..Len(m) |-> m[i][j]])

\* df / dx[:, None]
OverRows(df, dx) ==
    Arr([i \in 1..Len(df) |-> Arr([j \in 1..Len(df[i]) |-> RDiv(df[i][j], dx[i])])])

\* np.gradient(fs, axis=0) / np.gradient(xs)[:, None]
calculate_derivatives(xs, fs) ==
    OverRows(Transpose(Arr([j \in 1..Len(fs[1]) |-> gradient(Column(fs, j))])), gradient(xs))

Negated(m) == Arr([i \in 1..Len(m) |-> Arr([j \in 1..Len(m[i]) |-> RNeg(m[i][j])])])

entropy(temperature, free_energies) == Negated(calculate_derivatives(temperature, free_energies))

AddMatrices(a, b) == Arr([i \in 1..Len(a) |-> AddVectors(a[i], b[i])])

\* ps * vs
TimesColumns(ps, vs) ==
    Arr([i \in 1..Len(ps) |-> Arr([j \in 1..Len(vs) |-> RMul(ps[i][j], vs[j])])])

\* s * temperature.reshape(-1, 1)
TimesRows(s, temperature) ==
    Arr([i \in 1..Len(s) |-> Arr([j \in 1..Len(s[i]) |-> RMul(s[i][j], temperature[i])])])

\* Potentials with the enthalpy taken from the free energy: h = F + pv.
Potentials_without_heat(free_energies, pv, u) ==
    [U |-> u, H |-> AddMatrices(free_energies, pv), G |-> AddMatrices(free_energies, pv)]

\* g = F + pv, h = u + pv
Potentials(free_energies, pv, u) ==
    [U |-> u, H |-> AddMatrices(u, pv), G |-> AddMatrices(free_energies, pv)]

\* The dictionary with keys 'U', 'H', 'G'.
thermodynamic_potentials(temperature, vs, free_energies, ps) ==
    Potentials(free_energies, TimesColumns(ps, vs),
               AddMatrices(free_energies,
                           TimesRows(entropy(temperature, free_energies), temperature)))

\* x / y of float64: a quotient by zero is an infinity or a NaN, written with
\* the denominator 0.
FloatDiv(x, y) ==
    IF y[1] # 0 THEN RDiv(x, y)
    ELSE IF x[1] > 0 THEN <<1, 0>> ELSE IF x[1] < 0 THEN <<-1, 0>> ELSE <<0, 0>>

\* vs * bt * alpha / cv in every row, the first one too.
gruneisen_parameter_every_row(vs, bt, alpha, cv) ==
    Arr([i \in 1..Len(vs) |->
            Arr([j \in 1..Len(vs[i]) |->
                    FloatDiv(RMul(RMul(vs[i][j], bt[i][j]), alpha[i][j]), cv[i][j])])])

\* gamma[0] = 0.0; gamma[1:, :] = vs[1:] * bt[1:] * alpha[1:] / cv[1:]
gruneisen_parameter(vs, bt, alpha, cv) ==
    Arr([i \in 1..Len(vs) |->
            Arr([j \in 1..Len(vs[i]) |->
                    IF i = 1 THEN RZero
                    ELSE FloatDiv(RMul(RMul(vs[i][j], bt[i][j]), alpha[i][j]), cv[i][j])])])

\* x * y and x + y of float64, the infinities and the NaN included.
FloatMul(x, y) ==
    IF x[2] # 0 /\ y[2] # 0 THEN RMul(x, y)
    ELSE IF x[1] = 0 \/ y[1] = 0 THEN <<0, 0>>
    ELSE IF (x[1] > 0) = (y[1] > 0) THEN <<1, 0>> ELSE <<-1, 0>>

FloatAdd(x, y) ==
    IF x[2] # 0 /\ y[2] # 0 THEN RAdd(x, y)
    ELSE IF x[2] # 0 THEN y
    ELSE IF y[2] # 0 \/ x = y THEN x
    ELSE <<0, 0>>

\* calculate_derivatives(temperature, vs) / vs
thermal_expansion_coefficient(temperature, vs) ==
    With(calculate_derivatives(temperature, vs),
         LAMBDA dv : Arr([i \in 1..Len(vs) |->
                             Arr([j \in 1..Len(vs[i]) |-> FloatDiv(dv[i][j], vs[i][j])])]))

\* -np.gradient(ps, axis=1) / np.gradient(vs) * vs
isothermal_bulk_modulus(vs, ps) ==
    With(pressure(vs, ps), LAMBDA minus_dp_dv : TimesColumns(minus_dp_dv, vs))

\* x * (1.0 + alpha * gamma * temperature[:, None])
TimesOnePlus(x, alpha, gamma, temperature) ==
    Arr([i \in 1..Len(x) |->
            Arr([j \in 1..Len(x[i]) |->
                    FloatMul(x[i][j],
                             FloatAdd(ROne, FloatMul(FloatMul(alpha[i][j], gamma[i][j]),
                                                     temperature[i])))])])

adiabatic_bulk_modulus(bt, alpha, gamma, temperature) ==
    TimesOnePlus(bt, alpha, gamma, temperature)

isobaric_heat_capacity(cv, alpha, gamma, temperature) ==
    TimesOnePlus(cv, alpha, gamma, temperature)

\* The heat capacity taken as the second derivative of the internal energy.
volumetric_heat_capacity_differentiated_twice(temperature, internal_energies) ==
    calculate_derivatives(temperature, calculate_derivatives(temperature, internal_energies))

volumetric_heat_capacity(temperature, internal_energies) ==
    calculate_derivatives(temperature, internal_energies)

(***************************************************************************)
(* calculator.py: Calculator                                               *)
(*                                                                         *)
(* The settings are a record of every option with the set absent of the    *)
(* options that the dictionary does not hold.  The object is a record of   *)
(* its settings, the input it has read (<<>> for None), the dense grid     *)
(* that refine_grid has stored (<<>> for None) and, for every LazyProperty,*)
(* the value the descriptor keeps once it has computed it (<<>> before).   *)
(***************************************************************************)
Has(d, key) == key \notin d.absent

LazyNames ==
    { "temperature_array", "desired_pressures_gpa", "desired_pressures", "vib_ry",
      "p_tv_au", "p_tv_gpa", "thermodynamic_potentials", "f_tp_ry", "u_tp_ry", "h_tp_ry",
      "g_tp_ry", "v_tp_bohr3", "where_negative_frequencies" }

\* settings.py: the options of DEFAULT_SETTING that a run reads.
DEFAULT_SETTING ==
    [order |-> 3, p_min_modifier |-> ROne, DELTA_P |-> <<1, 10>>, static_only |-> FALSE,
     output_directory |-> "./results/", high_verbosity |-> FALSE]

\* Settings.__getitem__: the user's option, else the default one.
Defaulted(settings, key) ==
    IF Has(settings, key) THEN settings[key] ELSE DEFAULT_SETTING[key]

\* Calculator.__init__: the allowed options that the user's settings hold
\* and no other (no default is added), no input read, no grid refined, no
\* property computed.  Every option of the settings checked here is an
\* allowed one.
Calculator(user_settings) ==
    [made |-> TRUE, settings |-> user_settings, input |-> <<>>, grid |-> <<>>,
     cache |-> [n \in LazyNames |-> <<>>]]

\* What a method or a property read leaves: the object and the outcome.
Left(c, out) == [calc |-> c, out |-> out]

\* LazyProperty.__get__: the kept value if there is one, else the value that
\* the function computes, kept from now on.  computed is what the function
\* leaves, the properties it reads being read through their descriptors.
LazyGet(c, name, computed) ==
    IF c.cache[name] # <<>> THEN Left(c, Ok(c.cache[name][1]))
    ELSE IF computed.out.kind = "ok"
         THEN Left([computed.calc EXCEPT !.cache[name] = <<computed.out.value>>], computed.out)
         ELSE computed

\* temperature_array without the four temperatures added for the derivatives.
temperature_array_unpadded(d) ==
    IF RLt(d.T_MIN, RZero) THEN Raise("ValueError")
    ELSE Ok(arange(d.T_MIN, d.NT, d.DT))

\* Calculator.temperature_array
temperature_array(d) ==
    IF RLt(d.T_MIN, RZero) THEN Raise("ValueError")
    ELSE Ok(arange(d.T_MIN, d.NT + 4, d.DT))

get_temperature_array(c) ==
    LazyGet(c, "temperature_array", Left(c, temperature_array(c.settings)))

\* Calculator.desired_pressures_gpa
desired_pressures_gpa(d) ==
    IF ~Has(d, "NTV") THEN Raise("KeyError")
    ELSE Ok(arange(d.P_MIN, d.NTV, d.DELTA_P))

get_desired_pressures_gpa(c) ==
    LazyGet(c, "desired_pressures_gpa", Left(c, desired_pressures_gpa(c.settings)))

\* What follows a read or a call on the calculator that can raise: the raise,
\* or F of the calculator it left and the value it returned.
Bind(r, F(_, _)) == IF r.out.kind = "ok" THEN F(r.calc, r.out.value) ELSE r

ToRyB3(pressures_gpa) ==
    Arr([j \in 1..Len(pressures_gpa) |-> gpa_to_ry_b3(pressures_gpa[j])])

\* Calculator.desired_pressures
get_desired_pressures(c) ==
    LazyGet(c, "desired_pressures",
            Bind(get_desired_pressures_gpa(c), LAMBDA c1, gpa : Left(c1, Ok(ToRyB3(gpa)))))

\* The loop of Calculator.vib_ry: one row per temperature.
vib_ry(temperatures, q_weights, static_energies, frequencies, static_only) ==
    LoopFrom([i \in 1..Len(temperatures) |->
                       free_energy(temperatures[i], q_weights, static_energies, frequencies,
                                   static_only)], 1, Len(temperatures))

\* Calculator.vib_ry; the volumes of an object that has read no input have no size.
get_vib_ry(c) ==
    LazyGet(c, "vib_ry",
            Bind(get_temperature_array(c),
                 LAMBDA c1, t :
                     IF c.input = <<>> THEN Left(c1, Raise("AttributeError"))
                     ELSE Left(c1, vib_ry(t, c.input[1].q_weights, c.input[1].static_energies,
                                          c.input[1].frequencies, c.settings.static_only))))

\* np.transpose(np.where(frequencies < 0)), or None (<<>>) when its size is 0
\* or no input has been read: the indices (volume, q-point, band) from 0, in
\* the order of the array.
where_negative_frequencies(c) ==
    IF c.input = <<>> THEN <<>>
    ELSE LET fr == c.input[1].frequencies
             nq == Len(fr[1])
             ns == Len(fr[1][1])
         IN  SelectSeq(Arr([n \in 1..(Len(fr) * nq * ns) |->
                               <<(n - 1) \div (nq * ns), ((n - 1) \div ns) % nq, (n - 1) % ns>>]),
                       LAMBDA t : fr[t[1] + 1][t[2] + 1][t[3] + 1][1] < 0)

get_where_negative_frequencies(c) ==
    LazyGet(c, "where_negative_frequencies", Left(c, Ok(where_negative_frequencies(c))))

\* Calculator.read_input, the reader returning the data set data.
Calculator_read_input(c, data) ==
    IF ~Has(c.settings, "input") THEN Left(c, Raise("KeyError"))
    ELSE IF ~is_monotonic_decreasing(data.volumes) THEN Left(c, Raise("RuntimeError"))
    ELSE Left([c EXCEPT !.input = <<data>>], Ok(<<>>))

\* The input fields of a DifferentPhDOSCalculator that has read nothing yet;
\* <<>> is None.
NoInput ==
    [formula_unit_number |-> <<>>, volumes |-> <<>>, static_energies |-> <<>>,
     frequencies |-> <<>>, q_weights |-> <<>>, degeneracies |-> <<>>]

FieldOfFiles(inputs, field) == Arr([i \in 1..Len(inputs) |-> inputs[i].file[field]])

\* The checks of DifferentPhDOSCalculator.read_input on the files read, once
\* the degeneracies are stored in degenerate, and the fields it leaves.
ReadInputs(degenerate, inputs) ==
    IF \E i \in 1..Len(inputs) : ~is_monotonic_decreasing(inputs[i].file.volumes)
    THEN [stored |-> degenerate, out |-> Raise("ValueError")]
    ELSE IF Cardinality({inputs[i].file.formula_unit_number : i \in 1..Len(inputs)}) # 1
    THEN [stored |-> degenerate, out |-> Raise("RuntimeError")]
    ELSE IF \E i \in 1..Len(inputs) : Len(inputs[i].file.volumes) # Len(inputs[1].file.volumes)
    THEN [stored |-> degenerate, out |-> Raise("RuntimeError")]
    ELSE [stored |-> [degenerate EXCEPT
                         !.formula_unit_number = inputs[1].file.formula_unit_number,
                         !.volumes = FieldOfFiles(inputs, "volumes"),
                         !.static_energies = FieldOfFiles(inputs, "static_energies"),
                         !.frequencies = FieldOfFiles(inputs, "frequencies"),
                         !.q_weights = FieldOfFiles(inputs, "q_weights")],
          out |-> Ok(<<>>)]

\* DifferentPhDOSCalculator.read_input on a calculator whose input fields are
\* stored; inputs are the files the settings name, in order, each with its
\* degeneracy and the data the reader returns for it.
DifferentPhDOSCalculator_read_input(stored, inputs) ==
    ReadInputs([stored EXCEPT
                   !.degeneracies = Arr([i \in 1..Len(inputs) |-> inputs[i].degeneracy])],
               inputs)

\* DifferentPhDOSCalculator.vib_ry: one row per temperature, each one of a
\* new PartitionFunction of the default order 3.
DifferentPhDOSCalculator_vib_ry(temperatures, degeneracies, q_weights, static_energies, volumes, frequencies, static_only) ==
    LoopFrom([i \in 1..Len(temperatures) |->
                 PartitionFunction_get_free_energies(temperatures[i], degeneracies, q_weights,
                                                     static_energies, volumes, frequencies,
                                                     static_only, 3)],
             1, Len(temperatures))

\* The assignment of what FinerGrid.refine_grid returned, if it returned.
Refined(c, g) ==
    IF g.kind # "ok" THEN Left(c, g)
    ELSE Left([c EXCEPT !.grid = <<[finer_volumes_bohr3 |-> g.value.finer_volumes,
                                    f_tv_ry |-> g.value.f_tv_bfm,
                                    v_ratio |-> g.value.new_ratio]>>],
              Ok(<<>>))

\* Calculator.refine_grid
Calculator_refine_grid(c) ==
    IF ~Has(c.settings, "NTV") THEN Left(c, Raise("KeyError"))
    ELSE Bind(get_vib_ry(c),
              LAMBDA c1, vib :
                  Refined(c1, refine_grid(RSub(c.settings.P_MIN, c.settings.p_min_modifier),
                                          c.settings.NTV, c.settings.order,
                                          c.input[1].volumes, vib,
                                          IF Has(c.settings, "volume_ratio")
                                          THEN <<c.settings.volume_ratio>> ELSE <<>>)))

\* Calculator.p_tv_au; np.gradient of None raises.
get_p_tv_au(c) ==
    LazyGet(c, "p_tv_au",
            IF c.grid = <<>> THEN Left(c, Raise("AxisError"))
            ELSE Left(c, Ok(pressure(c.grid[1].finer_volumes_bohr3, c.grid[1].f_tv_ry))))

ToGPa(p_tv_au) ==
    Arr([i \in 1..Len(p_tv_au) |->
            Arr([j \in 1..Len(p_tv_au[i]) |-> ry_b3_to_gpa(p_tv_au[i][j])])])

\* Calculator.p_tv_gpa
get_p_tv_gpa(c) ==
    LazyGet(c, "p_tv_gpa", Bind(get_p_tv_au(c), LAMBDA c1, p : Left(c1, Ok(ToGPa(p)))))

\* Calculator.thermodynamic_potentials
get_thermodynamic_potentials(c) ==
    LazyGet(c, "thermodynamic_potentials",
            Bind(get_temperature_array(c),
                 LAMBDA c1, t :
                     Bind(get_p_tv_au(c1),
                          LAMBDA c2, p :
                              Left(c2, Ok(thermodynamic_potentials(
                                              t, c.grid[1].finer_volumes_bohr3,
                                              c.grid[1].f_tv_ry, p))))))

\* v2p(x_tv, self.p_tv_au, self.desired_pressures), x_tv already read.
Remapped(c, x_tv) ==
    Bind(get_p_tv_au(c),
         LAMBDA c1, p : Bind(get_desired_pressures(c1),
                             LAMBDA c2, d : Left(c2, v2p(x_tv, p, d))))

\* Calculator.f_tp_ry; f_tv_ry is None before the grid is refined.
get_f_tp_ry(c) ==
    LazyGet(c, "f_tp_ry", Remapped(c, IF c.grid = <<>> THEN <<>> ELSE c.grid[1].f_tv_ry))

\* Calculator.u_tp_ry, h_tp_ry, g_tp_ry: v2p of one of the potentials.
get_x_tp_ry(c, name, key) ==
    LazyGet(c, name,
            Bind(get_thermodynamic_potentials(c), LAMBDA c1, x : Remapped(c1, x[key])))

\* thermodynamics.volume: the volumes repeated for every temperature, remapped.
volume(vs, desired_ps, ps) ==
    v2p(Arr([i \in 1..Len(ps) |-> vs]), ps, desired_ps)

\* gamma_tp, cp_tp_au and bs_tp_au with the fields they are computed of.
HeatProperties(temperature, s_tv, u_tp, cv_tp, bt_tp, alpha_tp, gamma_tp) ==
    [S |-> s_tv, U |-> u_tp, Cv |-> cv_tp, alpha |-> alpha_tp, gamma |-> gamma_tp,
     Cp |-> isobaric_heat_capacity(cv_tp, alpha_tp, gamma_tp, temperature),
     Bs |-> adiabatic_bulk_modulus(bt_tp, alpha_tp, gamma_tp, temperature)]

\* The fields on the (T, P) grid, each one v2p of the field on the (T, V)
\* grid: u_tp_ry, cv_tp_au, v_tp_bohr3 with alpha_tp, bt_tp_au.
OnDesiredPressures(temperature, vs, s_tv, u_tv, ps, desired) ==
    Then(v2p(u_tv, ps, desired), LAMBDA u_tp :
    Then(v2p(volumetric_heat_capacity(temperature, u_tv), ps, desired), LAMBDA cv_tp :
    Then(volume(vs, desired, ps), LAMBDA v_tp :
    Then(v2p(isothermal_bulk_modulus(vs, ps), ps, desired), LAMBDA bt_tp :
    With(thermal_expansion_coefficient(temperature, v_tp), LAMBDA alpha_tp :
         Ok(HeatProperties(temperature, s_tv, u_tp, cv_tp, bt_tp, alpha_tp,
                           gruneisen_parameter(v_tp, bt_tp, alpha_tp, cv_tp))))))))

\* The properties of a Calculator whose temperature array, dense volumes and
\* dense free-energy field are given: the entropy on the (T, V) grid and the
\* other ones on the desired pressures, energies in Ry.
thermal_properties(temperature, vs, f_tv, desired) ==
    With(pressure(vs, f_tv), LAMBDA ps :
         OnDesiredPressures(temperature, vs, entropy(temperature, f_tv),
                            thermodynamic_potentials(temperature, vs, f_tv, ps).U,
                            ps, desired))

\* Calculator.v_tp_bohr3
get_v_tp_bohr3(c) ==
    LazyGet(c, "v_tp_bohr3",
            Bind(get_desired_pressures(c),
                 LAMBDA c1, d :
                     Bind(get_p_tv_au(c1),
                          LAMBDA c2, p :
                              Left(c2, volume(c.grid[1].finer_volumes_bohr3, d, p)))))

\* getattr(calc, name) for the properties that are read by name.
GetProperty(c, name) ==
    CASE name = "vib_ry" -> get_vib_ry(c)
      [] name = "p_tv_au" -> get_p_tv_au(c)
      [] name = "p_tv_gpa" -> get_p_tv_gpa(c)
      [] name = "thermodynamic_potentials" -> get_thermodynamic_potentials(c)
      [] name = "f_tp_ry" -> get_f_tp_ry(c)
      [] name = "u_tp_ry" -> get_x_tp_ry(c, "u_tp_ry", "U")
      [] name = "h_tp_ry" -> get_x_tp_ry(c, "h_tp_ry", "H")
      [] name = "g_tp_ry" -> get_x_tp_ry(c, "g_tp_ry", "G")
      [] name = "v_tp_bohr3" -> get_v_tp_bohr3(c)
      [] name = "where_negative_frequencies" -> get_where_negative_frequencies(c)

\* The comparison of Calculator.desired_pressure_status.
\* The test with the smallest desired pressure in place of the largest.
pressure_too_high_for_all(p_tv_gpa, pressures_gpa) ==
    RLt(RMinSeq(Column(p_tv_gpa, Len(p_tv_gpa[1]))), RMinSeq(pressures_gpa))

pressure_too_high(p_tv_gpa, pressures_gpa) ==
    RLt(RMinSeq(Column(p_tv_gpa, Len(p_tv_gpa[1]))), RMaxSeq(pressures_gpa))

\* Calculator.desired_pressure_status
Calculator_desired_pressure_status(c) ==
    IF c.settings.high_verbosity /\ ~Has(c.settings, "qha_output")
    THEN Left(c, Raise("KeyError"))
    ELSE Bind(get_p_tv_gpa(c),
              LAMBDA c1, p :
                  Bind(get_desired_pressures_gpa(c1),
                       LAMBDA c2, d :
                           IF ~pressure_too_high(p, d) THEN Left(c2, Ok(<<>>))
                           ELSE IF ~Has(c2.settings, "qha_output")
                           THEN Left(c2, Raise("KeyError"))
                           ELSE Left(c2, Raise("ValueError"))))

(***************************************************************************)
(* basic_io/out.py: the rows of the written tables                         *)
(*                                                                         *)
(* A DataFrame is the sequence of its rows, each with its index label; a   *)
(* written table is the DataFrame that to_string prints.                   *)
(***************************************************************************)
\* int(x) of a float: the fraction is dropped.
int(x) == IF x[1] >= 0 THEN x[1] \div x[2] ELSE -((-x[1]) \div x[2])

\* a[0::step], step > 0
Strided(a, step) == Arr([i \in 1..((Len(a) + step - 1) \div step) |-> a[(i - 1) * step + 1]])

\* Calculator.temperature_sample_array on the temperature axis t, DT > 0; a
\* slice step of zero is a ValueError.
temperature_sample_array(d, t) ==
    IF int(RDiv(d.DT_SAMPLE, d.DT)) = 0 THEN Raise("ValueError")
    ELSE Ok(Strided(t, int(RDiv(d.DT_SAMPLE, d.DT))))

\* pd.DataFrame(x, index=index, columns=columns)
DataFrame(x, index, columns) ==
    Arr([i \in 1..Len(index) |->
            [index |-> index[i],
             row |-> Arr([j \in 1..Len(columns) |-> [column |-> columns[j], x |-> x[i][j]]])]])

isin(label, values) == \E j \in 1..Len(values) : values[j] = label

\* save_x_tp: the table it writes to outfile_name.
save_x_tp(df, t, desired_gpa, p_sample_gpa) ==
    Arr([i \in 1..Len(PySlice(t, 0, -4)) |->
            [index |-> t[i],
             row |-> SelectSeq(DataFrame(df, t, desired_gpa)[i].row,
                               LAMBDA c : isin(c.column, p_sample_gpa))]])

\* save_x_tv: the table it writes to outfile_name.
save_x_tv(x, t, volume_grid, t_sample) ==
    SelectSeq(PySlice(DataFrame(x, t, volume_grid), 0, -4),
              LAMBDA r : isin(r.index, PySlice(t_sample, 0, -4)))

(***************************************************************************)
(* Bounds of the checked instances                                         *)
(***************************************************************************)
MaxP == 4          \* grid pressures of a v2p call are drawn from 0..MaxP
MaxF == 1          \* field values of a v2p call are drawn from 0..MaxF
MaxCols == 5       \* most volume columns of a v2p call (at least 4)

(***************************************************************************)
(* The states outside a specification's own part                           *)
(***************************************************************************)
NoCall == [fn |-> "none", phase |-> "idle", args |-> <<>>, out |-> Ok(<<>>)]

NoCalc == [made |-> FALSE]

NoRun == [pc |-> "idle"]

(***************************************************************************)
(* SpecV2P: calls of v2p                                                   *)
(***************************************************************************)
\* Strictly increasing integer rows of length n over lo..hi.
RECURSIVE IncreasingRows(_, _, _)
IncreasingRows(n, lo, hi) ==
    IF n = 0 THEN {<<>>}
    ELSE UNION {{<<a>> \o r : r \in IncreasingRows(n - 1, a + 1, hi)} : a \in lo..hi}

\* Integer rows of length n over lo..hi that never decrease.
RECURSIVE NonDecreasingRows(_, _, _)
NonDecreasingRows(n, lo, hi) ==
    IF n = 0 THEN {<<>>}
    ELSE UNION {{<<a>> \o r : r \in NonDecreasingRows(n - 1, a, hi)} : a \in lo..hi}

\* tools.arange(start, num, step), on integers.
IntArange(start, num, step) == Arr([n \in 1..num |-> start + step * (n - 1)])

\* The (f, p) fields of a v2p call: one temperature row whose field does not
\* decrease along the pressures, or two of which the second is the first
\* with its pressures raised by dp and its field by df.
V2PFields(n) ==
    LET one == {<<f, p>> : f \in NonDecreasingRows(n, 0, MaxF),
                           p \in IncreasingRows(n, 0, MaxP)}
    IN  {[f |-> <<fp[1]>>, p |-> <<fp[2]>>] : fp \in one}
        \cup {[f |-> <<fp[1], Arr([j \in 1..n |-> fp[1][j] + 1])>>,
               p |-> <<fp[2], Arr([j \in 1..n |-> fp[2][j] + dp])>>] :
                  fp \in {x \in one : x[1][1] = 0}, dp \in {1}}

\* The arguments of a v2p call on n volume columns: the desired pressures
\* are arange(start, m, 1) with m columns, m within one of n.
V2PArgs(n) ==
    {[f |-> RMat(fld.f), p |-> RMat(fld.p), desired |-> RVec(IntArange(s, m, 1))] :
        fld \in V2PFields(n), s \in -1..MaxP, m \in (n - 1)..(n + 1)}

\* c[1] + c[2] * x + c[3] * x^2 + c[4] * x^3
Polynomial(c, x) == RSum(Arr([k \in 1..4 |-> RMul(RInt(c[k]), RPow(x, k - 1))]))

\* Four nodes, the first three of them for lagrange3; the last two sets
\* repeat a node.
LagrangeNodes == {<<0, 1, 3, 4>>, <<-1, 2, 0, 5>>, <<0, 1, 1, 3>>, <<0, 1, 3, 3>>}

\* The evaluations of the interpolants: any values on the nodes, evaluated
\* at a node, with 2 to 4 of the nodes given to lagrange3; and the values of
\* a polynomial c of degree at most 3 on distinct nodes, evaluated anywhere.
LagrangeArgs ==
    {[xs |-> RVec(xs), ys |-> RVec(ys), x |-> RInt(xs[i]), n3 |-> n, c |-> <<>>] :
        xs \in LagrangeNodes, ys \in [1..4 -> {-1, 2}], i \in 1..4, n \in 2..4}
    \cup {[xs |-> RVec(xs), ys |-> Arr([i \in 1..4 |-> Polynomial(c, RInt(xs[i]))]),
           x |-> Rat(x, 2), n3 |-> 3, c |-> c] :
        xs \in {<<0, 1, 3, 4>>, <<-1, 2, 0, 5>>}, c \in [1..4 -> -1..1], x \in {-3, 1, 5}}
    \cup {[xs |-> RVec(<<0, 1, 3, 4>>), ys |-> RVec(<<2, 4, 5, 0>>), x |-> Rat(5, 2), n3 |-> 3,
           c |-> <<>>]}

\* Strictly increasing arrays of n elements and the values looked up in
\* them: from below the least possible element to above the largest, in
\* halves.
FindNearestArgs(n) ==
    {[array |-> RVec(a), value |-> Rat(v, 2)] :
        a \in IncreasingRows(n, 0, MaxP), v \in -1..(2 * MaxP + 1)}

InitV2P ==
    /\ call \in UNION {{[fn |-> "v2p", phase |-> "in", args |-> a, out |-> Ok(<<>>)] :
                            a \in V2PArgs(n)} : n \in 4..MaxCols}
               \cup {[fn |-> "lagrange", phase |-> "in", args |-> a, out |-> Ok(<<>>)] :
                        a \in LagrangeArgs}
               \cup UNION {{[fn |-> "find_nearest", phase |-> "in", args |-> a,
                              out |-> Ok(<<>>)] : a \in FindNearestArgs(n)} : n \in 2..MaxCols}
    /\ calc = NoCalc
    /\ run = NoRun

CallV2P ==
    /\ call.fn = "v2p" /\ call.phase = "in"
    /\ call' = [call EXCEPT !.phase = "out",
                            !.out = v2p(call.args.f, call.args.p, call.args.desired)]
    /\ UNCHANGED <<calc, run>>

\* lagrange3 on the first n3 nodes and _lagrange4 on the four, both at x.
CallLagrange ==
    /\ call.fn = "lagrange" /\ call.phase = "in"
    /\ call' = [call EXCEPT
                   !.phase = "out",
                   !.out = Ok([l3 |-> lagrange3(SubSeq(call.args.xs, 1, call.args.n3),
                                                SubSeq(call.args.ys, 1, call.args.n3),
                                                call.args.x),
                               l4 |-> v2p_lagrange4(call.args.x, call.args.xs[1],
                                                    call.args.xs[2], call.args.xs[3],
                                                    call.args.xs[4], call.args.ys[1],
                                                    call.args.ys[2], call.args.ys[3],
                                                    call.args.ys[4])])]
    /\ UNCHANGED <<calc, run>>

\* find_nearest, and vectorized_find_nearest on the one value.
CallFindNearest ==
    /\ call.fn = "find_nearest" /\ call.phase = "in"
    /\ call' = [call EXCEPT
                   !.phase = "out",
                   !.out = Ok([j |-> find_nearest(call.args.array, call.args.value),
                               result |-> vectorized_find_nearest(call.args.array,
                                                                  <<call.args.value>>)])]
    /\ UNCHANGED <<calc, run>>

NextV2P == CallV2P \/ CallLagrange \/ CallFindNearest

SpecV2P == InitV2P /\ [][NextV2P]_vars

(***************************************************************************)
(* SpecFE: calls of the free-energy evaluators                             *)
(***************************************************************************)
MaxConfigs == 3    \* most copies of a configuration handed to a combiner

MaxNT == 1         \* largest NT of a temperature array

\* frequencies[q][mode] of one volume: two q-points, one mode each.
FreqRows == { <<<<0>>, <<1>>>>, <<<<1>>, <<6>>>>, <<<<6>>, <<6>>>>, <<<<-1>>, <<2>>>> }

\* frequencies[volume][q][mode]: the same at every volume, or rising as the
\* volume index rises.
FreqArrays(nv) ==
    {Arr([v \in 1..nv |-> fq]) : fq \in FreqRows} \cup {Arr([v \in 1..nv |-> <<<<v>>, <<v + 1>>>>])}

RFreq(fr) == Arr([v \in 1..Len(fr) |-> RMat(fr[v])])

FEVolumes == { <<3, 2>>, <<4, 3, 2>> }

FreeEnergyArgs ==
    {[temperature |-> RInt(t), q_weights |-> RVec(w), static_energies |-> RVec(e),
      frequencies |-> RFreq(fr), static_only |-> so] :
        t \in 0..2, w \in [1..2 -> -1..1], e \in [1..2 -> {-2, -1}],
        fr \in FreqArrays(2), so \in BOOLEAN}

\* One configuration and what a run evaluates it with.
CombineArgs ==
    UNION {{[temperature |-> t, copies |-> n, volumes |-> RVec(vs), q_weights |-> RVec(w),
             static_energies |-> RVec(e), frequencies |-> RFreq(fr),
             static_only |-> so, order |-> 1] :
               t \in {RInt(0), <<1, 20>>, RInt(1), RInt(2)}, n \in 1..MaxConfigs,
               w \in {<<1, 1>>, <<1, 3>>}, e \in [1..Len(vs) -> {-2, -1}],
               fr \in FreqArrays(Len(vs)), so \in BOOLEAN} :
           vs \in FEVolumes}

\* The arguments of the loop of Calculator.vib_ry: a temperature array of
\* NT + 4 points from T_MIN in steps of DT, and the data of an input file.
VibRyArgs ==
    {[temperatures |-> arange(RInt(t0), nt + 4, RInt(dt)), q_weights |-> RVec(w),
      static_energies |-> RVec(e), frequencies |-> RFreq(fr), static_only |-> so] :
        t0 \in 0..1, nt \in 0..MaxNT, dt \in 1..2, w \in [1..2 -> 0..1],
        e \in [1..2 -> {-2, -1}], fr \in FreqArrays(2), so \in BOOLEAN}

\* Arrays of n elements of every rank up to max_rank, the elements drawn from
\* values.
ArraysOf(values, n, max_rank) ==
    {NdArray([k \in 1..r |-> IF k = r THEN n ELSE 1], RVec(f)) :
        r \in 1..max_rank, f \in [1..n -> values]}

\* What a combiner is constructed on: two configurations, their q-weights
\* (a vector for the same phonon DOS, a matrix for different ones), static
\* energies of rank 1 to 3 and frequencies of rank 2 to 5.
ConstructArgs ==
    {[variant |-> v, degeneracies |-> NdArray(<<2>>, RVec(g)),
      q_weights |-> NdArray(IF v = "same" THEN <<2>> ELSE <<2, 1>>, RVec(w)),
      static_energies |-> e, frequencies |-> fr] :
        v \in {"same", "different"}, g \in {<<1, 1>>, <<-1, 1>>}, w \in {<<1, 1>>, <<1, -1>>},
        e \in ArraysOf({-1}, 2, 3), fr \in {a \in ArraysOf({1}, 2, 5) : ndim(a) >= 2}}

\* The settings a temperature axis is made of: the lowest temperature from
\* -1 to 2 in halves, up to MaxNT + 1 temperatures, steps of 1/2 to 2.
AxisSettings ==
    {[T_MIN |-> Rat(t, 2), NT |-> n, DT |-> Rat(dt, 2)] :
        t \in -2..4, n \in 0..(MaxNT + 1), dt \in 1..4}

\* What the tables are written of: an axis that can be read, the sampling
\* step from 1/2 to 2, a property of one volume and of two pressures on
\* every temperature of the axis, and the pressures sampled.
SaveArgs ==
    {[d |-> [T_MIN |-> a.T_MIN, NT |-> a.NT, DT |-> a.DT, DT_SAMPLE |-> Rat(s, 2)],
      p_sample_gpa |-> RVec(ps)] :
        a \in {b \in AxisSettings : b.T_MIN[1] >= 0}, s \in 1..4, ps \in {<<0, 1>>, <<0>>}}

\* The (T, V) fields the potentials are taken of: MaxNT + 2 temperatures from
\* 0 or 1 in steps of 1 or 2, two volumes, free energies of -1 and 2 and
\* pressures that are constant or grow along both axes.
PotentialArgs ==
    {[temperature |-> arange(RInt(t0), MaxNT + 2, RInt(dt)), vs |-> RVec(<<3, 2>>),
      free_energies |-> RMat(f),
      ps |-> Arr([i \in 1..(MaxNT + 2) |-> RVec([j \in 1..2 |-> p0 + i * j * p1])])] :
        t0 \in 0..1, dt \in 1..2, f \in [1..(MaxNT + 2) -> [1..2 -> {-1, 2}]],
        p0 \in 0..1, p1 \in 0..1}

\* The (T, P) fields a Grueneisen parameter is taken of: MaxNT + 1
\* temperatures, one pressure, volumes of 1 and 2, a bulk modulus of 3,
\* expansion coefficients of 0 and 1/2 and heat capacities from 0 to 2.
GruneisenArgs ==
    {[vs |-> RMat(v), bt |-> Arr([i \in 1..(MaxNT + 1) |-> RVec(<<3>>)]),
      alpha |-> Arr([i \in 1..(MaxNT + 1) |-> <<Rat(a[i][1], 2)>>]), cv |-> RMat(c)] :
        v \in [1..(MaxNT + 1) -> [1..1 -> 1..2]], a \in [1..(MaxNT + 1) -> [1..1 -> 0..1]],
        c \in [1..(MaxNT + 1) -> [1..1 -> 0..2]]}

\* What is differentiated: a field of MaxNT + 2 points along the axis xs,
\* evenly spaced or not, ascending or descending, with values of -1, 0 and 2.
DerivativeArgs ==
    {[xs |-> RVec(x), fs |-> RMat(f)] :
        x \in {[i \in 1..(MaxNT + 2) |-> i], [i \in 1..(MaxNT + 2) |-> i * i],
               [i \in 1..(MaxNT + 2) |-> -i]},
        f \in [1..(MaxNT + 2) -> [1..1 -> {-1, 0, 2}]]}

\* One oscillator: temperatures from 0 to 2 and frequencies from -1 to 2, in
\* halves.
OscillatorArgs ==
    {[temperature |-> Rat(t, 2), frequency |-> Rat(w, 2)] : t \in 0..4, w \in -2..4}

\* The data an input file can hold: one or two formula units, and volumes
\* that decrease, that increase, or one volume more.
InputFiles ==
    {[formula_unit_number |-> n, volumes |-> RVec(v), static_energies |-> RVec(v),
      q_weights |-> RVec(<<1>>), frequencies |-> Arr([i \in 1..Len(v) |-> <<<<ROne>>>>])] :
        n \in 1..2, v \in {<<2, 1>>, <<1, 2>>, <<3, 2, 1>>}}

\* The file every configuration held when the calculator read its input
\* before.
EarlierFile == CHOOSE f \in InputFiles : f.formula_unit_number = 1 /\ f.volumes = RVec(<<2, 1>>)

\* A read_input of up to MaxConfigs - 1 configurations, on a new calculator
\* or on one that has read the earlier files of its settings.
ReadInputArgs ==
    {[stored |-> IF again THEN DifferentPhDOSCalculator_read_input(
                                   NoInput,
                                   Arr([i \in 1..Len(inputs) |->
                                           [inputs[i] EXCEPT !.file = EarlierFile]])).stored
                 ELSE NoInput,
      inputs |-> inputs] :
        again \in BOOLEAN,
        inputs \in UNION {[1..n -> [file : InputFiles, degeneracy : 1..2]] :
                             n \in 1..(MaxConfigs - 1)}}

\* Four dense volumes, and a free energy on them whose pressures, 1, 4, 9 and
\* 13, fall by 1 when the volume grows by 1.
DenseVolumes == <<13, 10, 5, 1>>

ColdRow == <<0, 3, 32, 84>>

\* A dense free-energy field of nt + 4 temperatures from 0 in steps of 1: the
\* pressures grow by c from one temperature to the next, and d bends the
\* field along the temperature.
DenseField(c, d, nt) ==
    Arr([i \in 1..(nt + 4) |->
            RVec([j \in 1..4 |-> ColdRow[j] + c * (i - 1) * (13 - DenseVolumes[j])
                                    - d * (i - 1) * (i - 1)])])

\* The rows that are put in the place of the last two: a flat one, the cold
\* one raised by 7, one with pressures higher by 2, and a steep one.
OtherRows ==
    {RVec(r) : r \in {<<0, 0, 0, 0>>, <<7, 10, 39, 91>>, <<0, 9, 48, 108>>,
                      <<0, 60, 640, 1680>>}}

\* The properties of a calculator of MaxNT + 1 temperatures and four more:
\* its dense field, the rows replacing the last two, and four desired
\* pressures that every row of the field brackets.
ThermalArgs ==
    {[temperature |-> arange(RZero, MaxNT + 5, ROne), vs |-> RVec(DenseVolumes),
      f_tv |-> DenseField(c, d, MaxNT + 1),
      replaced |-> [DenseField(c, d, MaxNT + 1) EXCEPT ![MaxNT + 4] = r1, ![MaxNT + 5] = r2],
      desired |-> arange(RInt(8), 4, <<1, 2>>)] :
        c \in 0..1, d \in 0..2, r1 \in OtherRows, r2 \in OtherRows}

Copies(n, x) == Arr([c \in 1..n |-> x])

\* The volumes of a configuration: four, with Eulerian strains 0, 1, 2 and 3,
\* or two.
ConfigurationVolumes == { <<105, 35, 21, 15>>, <<3, 2>> }

\* The inputs of a DifferentPhDOSCalculator and its temperature array: one
\* configuration or two with the same volumes, the second with static
\* energies higher by shift, and degeneracies of 1 and g.
DifferentVibRyArgs ==
    UNION {{[temperatures |-> arange(RInt(t0), MaxNT + 4, RInt(dt)),
             degeneracies |-> RVec([c \in 1..n |-> IF c = 1 THEN 1 ELSE g]),
             q_weights |-> Copies(n, RVec(<<1, 1>>)),
             static_energies |-> Arr([c \in 1..n |-> RVec([v \in 1..Len(vs) |->
                                                              e[v] + (c - 1) * shift])]),
             volumes |-> Copies(n, RVec(vs)),
             frequencies |-> Copies(n, RFreq(fr)),
             static_only |-> so] :
               t0 \in 0..1, dt \in 1..2, n \in 1..2, g \in 1..2, shift \in 0..1,
               e \in {[v \in 1..Len(vs) |-> -1], [v \in 1..Len(vs) |-> v * v - 2]},
               fr \in FreqArrays(Len(vs)), so \in BOOLEAN} :
           vs \in ConfigurationVolumes}

InitFE ==
    /\ call \in {[fn |-> "free_energy", phase |-> "in", args |-> a, out |-> Ok(<<>>)] :
                    a \in FreeEnergyArgs}
          \cup {[fn |-> "combine", phase |-> "in", args |-> a, out |-> Ok(<<>>)] :
                    a \in CombineArgs}
          \cup {[fn |-> "vib_ry", phase |-> "in", args |-> a, out |-> Ok(<<>>)] :
                    a \in VibRyArgs}
          \cup {[fn |-> "construct", phase |-> "in", args |-> a, out |-> Ok(<<>>)] :
                    a \in ConstructArgs}
          \cup {[fn |-> "temperature_array", phase |-> "in", args |-> a, out |-> Ok(<<>>)] :
                    a \in AxisSettings}
          \cup {[fn |-> "save", phase |-> "in", args |-> a, out |-> Ok(<<>>)] : a \in SaveArgs}
          \cup {[fn |-> "ho_free_energy", phase |-> "in", args |-> a, out |-> Ok(<<>>)] :
                    a \in OscillatorArgs}
          \cup {[fn |-> "calculate_derivatives", phase |-> "in", args |-> a,
                 out |-> Ok(<<>>)] : a \in DerivativeArgs}
          \cup {[fn |-> "gruneisen_parameter", phase |-> "in", args |-> a,
                 out |-> Ok(<<>>)] : a \in GruneisenArgs}
          \cup {[fn |-> "thermodynamic_potentials", phase |-> "in", args |-> a,
                 out |-> Ok(<<>>)] : a \in PotentialArgs}
          \cup {[fn |-> "read_input", phase |-> "in", args |-> a, out |-> Ok(<<>>)] :
                    a \in ReadInputArgs}
          \cup {[fn |-> "thermal_properties", phase |-> "in", args |-> a,
                 out |-> Ok(<<>>)] : a \in ThermalArgs}
          \cup {[fn |-> "DifferentPhDOSCalculator.vib_ry", phase |-> "in", args |-> a,
                 out |-> Ok(<<>>)] : a \in DifferentVibRyArgs}
    /\ calc = NoCalc
    /\ run = NoRun

CallFreeEnergy ==
    /\ call.fn = "free_energy" /\ call.phase = "in"
    /\ call' = [call EXCEPT !.phase = "out",
                            !.out = free_energy(call.args.temperature, call.args.q_weights,
                                                call.args.static_energies, call.args.frequencies,
                                                call.args.static_only)]
    /\ UNCHANGED <<calc, run>>

\* The configuration evaluated alone, and n identical copies of it, each of
\* degeneracy 1 / n, evaluated by the two combiners.
CallCombiners ==
    /\ call.fn = "combine" /\ call.phase = "in"
    /\ LET a == call.args
           g == Copies(a.copies, Rat(1, a.copies))
       IN  call' = [call EXCEPT
               !.phase = "out",
               !.out = [single |-> free_energy(a.temperature, a.q_weights, a.static_energies,
                                               a.frequencies, a.static_only),
                        same   |-> FreeEnergy_get_free_energies(
                                       a.temperature, g, a.q_weights,
                                       Copies(a.copies, a.static_energies),
                                       Copies(a.copies, a.volumes),
                                       a.frequencies, a.static_only, a.order),
                        diff   |-> PartitionFunction_get_free_energies(
                                       a.temperature, g, Copies(a.copies, a.q_weights),
                                       Copies(a.copies, a.static_energies),
                                       Copies(a.copies, a.volumes),
                                       Copies(a.copies, a.frequencies),
                                       a.static_only, a.order)]]
    /\ UNCHANGED <<calc, run>>

\* The matrix of Calculator.vib_ry for a temperature array and an input.
CallVibRy ==
    /\ call.fn = "vib_ry" /\ call.phase = "in"
    /\ call' = [call EXCEPT !.phase = "out",
                            !.out = vib_ry(call.args.temperatures, call.args.q_weights,
                                           call.args.static_energies, call.args.frequencies,
                                           call.args.static_only)]
    /\ UNCHANGED <<calc, run>>

\* The construction of a combiner, nothing evaluated yet.
CallConstruct ==
    /\ call.fn = "construct" /\ call.phase = "in"
    /\ call' = [call EXCEPT
                   !.phase = "out",
                   !.out = IF call.args.variant = "same"
                           THEN FreeEnergy_init(call.args.degeneracies, call.args.q_weights,
                                                call.args.static_energies,
                                                call.args.frequencies)
                           ELSE PartitionFunction_init(call.args.degeneracies,
                                                       call.args.q_weights,
                                                       call.args.static_energies,
                                                       call.args.frequencies)]
    /\ UNCHANGED <<calc, run>>

\* A first read of Calculator.temperature_array.
CallTemperatureArray ==
    /\ call.fn = "temperature_array" /\ call.phase = "in"
    /\ call' = [call EXCEPT !.phase = "out", !.out = temperature_array(call.args)]
    /\ UNCHANGED <<calc, run>>

\* The tables save_x_tv and save_x_tp write for the axis t and its sample.
Saved(t, t_sample, p_sample_gpa) ==
    Ok([tv |-> save_x_tv(Arr([i \in 1..Len(t) |-> RVec(<<i>>)]), t, RVec(<<1>>), t_sample),
        tp |-> save_x_tp(Arr([i \in 1..Len(t) |-> RVec(<<i, -i>>)]), t, RVec(<<0, 1>>),
                         p_sample_gpa)])

\* The runner from the temperature axis to a table of each kind.
CallSave ==
    /\ call.fn = "save" /\ call.phase = "in"
    /\ call' = [call EXCEPT
                   !.phase = "out",
                   !.out = Then(temperature_array(call.args.d),
                                LAMBDA t : Then(temperature_sample_array(call.args.d, t),
                                    LAMBDA t_sample : Saved(t, t_sample, call.args.p_sample_gpa)))]
    /\ UNCHANGED <<calc, run>>

CallThermodynamicPotentials ==
    /\ call.fn = "thermodynamic_potentials" /\ call.phase = "in"
    /\ call' = [call EXCEPT
                   !.phase = "out",
                   !.out = Ok(thermodynamic_potentials(call.args.temperature, call.args.vs,
                                                       call.args.free_energies, call.args.ps))]
    /\ UNCHANGED <<calc, run>>

CallGruneisenParameter ==
    /\ call.fn = "gruneisen_parameter" /\ call.phase = "in"
    /\ call' = [call EXCEPT
                   !.phase = "out",
                   !.out = Ok(gruneisen_parameter(call.args.vs, call.args.bt, call.args.alpha,
                                                  call.args.cv))]
    /\ UNCHANGED <<calc, run>>

\* The derivative along the axis of the rows, and the pressure of the same
\* field laid along the volume axis.
CallCalculateDerivatives ==
    /\ call.fn = "calculate_derivatives" /\ call.phase = "in"
    /\ call' = [call EXCEPT
                   !.phase = "out",
                   !.out = Ok([dfdx |-> calculate_derivatives(call.args.xs, call.args.fs),
                               pressure |-> pressure(call.args.xs, Transpose(call.args.fs))])]
    /\ UNCHANGED <<calc, run>>

CallHoFreeEnergy ==
    /\ call.fn = "ho_free_energy" /\ call.phase = "in"
    /\ call' = [call EXCEPT
                   !.phase = "out",
                   !.out = Ok(ho_free_energy(call.args.temperature, call.args.frequency))]
    /\ UNCHANGED <<calc, run>>

\* DifferentPhDOSCalculator.read_input: out holds the fields the call left on
\* the calculator and how it ended.
CallReadInput ==
    /\ call.fn = "read_input" /\ call.phase = "in"
    /\ call' = [call EXCEPT
                   !.phase = "out",
                   !.out = DifferentPhDOSCalculator_read_input(call.args.stored,
                                                               call.args.inputs)]
    /\ UNCHANGED <<calc, run>>

\* The properties of two calculators that differ in the last two rows of
\* the dense field.
CallThermalProperties ==
    /\ call.fn = "thermal_properties" /\ call.phase = "in"
    /\ call' = [call EXCEPT
                   !.phase = "out",
                   !.out = [given |-> thermal_properties(call.args.temperature, call.args.vs,
                                                         call.args.f_tv, call.args.desired),
                            replaced |-> thermal_properties(call.args.temperature,
                                                            call.args.vs, call.args.replaced,
                                                            call.args.desired)]]
    /\ UNCHANGED <<calc, run>>

\* A first read of DifferentPhDOSCalculator.vib_ry.
CallDifferentVibRy ==
    /\ call.fn = "DifferentPhDOSCalculator.vib_ry" /\ call.phase = "in"
    /\ call' = [call EXCEPT
                   !.phase = "out",
                   !.out = DifferentPhDOSCalculator_vib_ry(
                               call.args.temperatures, call.args.degeneracies,
                               call.args.q_weights, call.args.static_energies,
                               call.args.volumes, call.args.frequencies,
                               call.args.static_only)]
    /\ UNCHANGED <<calc, run>>

NextFE ==
    \/ CallHoFreeEnergy
    \/ CallCalculateDerivatives
    \/ CallThermodynamicPotentials
    \/ CallGruneisenParameter
    \/ CallFreeEnergy
    \/ CallCombiners
    \/ CallVibRy
    \/ CallConstruct
    \/ CallTemperatureArray
    \/ CallSave
    \/ CallReadInput
    \/ CallThermalProperties
    \/ CallDifferentVibRy

SpecFE == InitFE /\ [][NextFE]_vars

StaticOnlyCall(fn) ==
    /\ call.fn = fn /\ call.phase = "out"
    /\ call.args.static_only
    /\ \A q \in 1..Len(call.args.q_weights) : call.args.q_weights[q][1] >= 0

\* C1: for any non-negative q-weights, any static energies and any
\* frequencies, free_energy with static_only = True returns exactly the
\* static-energy vector at every temperature, and so every row of the matrix
\* of Calculator.vib_ry is the static-energy vector, one row per temperature.
C1_StaticOnlyIsStatic ==
    /\ StaticOnlyCall("free_energy") => call.out = Ok(call.args.static_energies)
    /\ StaticOnlyCall("vib_ry") =>
           /\ call.out.kind = "ok"
           /\ Len(call.out.value) = Len(call.args.temperatures)
           /\ \A i \in 1..Len(call.out.value) : call.out.value[i] = call.args.static_energies

\* A static-only matrix over temperatures above 0, for an input with a mode
\* of positive frequency and weights that are not all 0.
C1_Witness ==
    /\ StaticOnlyCall("vib_ry")
    /\ Len(call.out.value) = MaxNT + 4
    /\ call.args.temperatures[1][1] > 0
    /\ call.args.q_weights[1][1] > 0
    /\ call.args.frequencies[1][1][1][1] > 0
    /\ call.args.static_energies[1] # call.args.static_energies[2]

\* C2: for any single configuration, any N >= 1 and any temperature of the
\* run, the same-DOS FreeEnergy and the different-DOS PartitionFunction, fed
\* N identical copies of the configuration with degeneracy 1/N each, yield
\* for every volume the free energy that free_energy yields for the
\* configuration alone.
C2_CopiesReproduceSingle ==
    (call.fn = "combine" /\ call.phase = "out")
        => /\ call.out.single.kind = "ok"
           /\ call.out.same = call.out.single
           /\ call.out.diff = call.out.single

FreeEnergyReturned == call.fn = "free_energy" /\ call.phase = "out"

SomeWeightNegative == \E q \in 1..Len(call.args.q_weights) : call.args.q_weights[q][1] < 0

\* C11: free_energy fails with the error of invalid input whenever a q-weight
\* is negative, also when static_only is true: for negative weights it never
\* returns the static energies or a vibrational sum.
C11_NegativeWeightRaises ==
    (FreeEnergyReturned /\ SomeWeightNegative) => call.out = Raise("ValueError")

\* A static-only call with a negative and a positive weight has raised.
C11_Witness ==
    /\ FreeEnergyReturned /\ SomeWeightNegative
    /\ call.args.static_only
    /\ \E q \in 1..Len(call.args.q_weights) : call.args.q_weights[q][1] > 0
    /\ call.out.kind = "raise"

Constructed == call.fn = "construct" /\ call.phase = "out"

\* The rank of the frequencies of a combiner: volumes, q-points and modes,
\* and the configurations where the phonon DOS differ.
FrequencyRank(variant) == IF variant = "same" THEN 3 ELSE 4

InvalidForCombiner ==
    \/ \E i \in 1..Len(call.args.degeneracies.flat) : call.args.degeneracies.flat[i][1] < 0
    \/ \E i \in 1..Len(call.args.q_weights.flat) : call.args.q_weights.flat[i][1] < 0
    \/ Len(call.args.frequencies.shape) # FrequencyRank(call.args.variant)
    \/ Len(call.args.static_energies.shape) # 2

\* C12: both combiners reject invalid input at construction: a negative
\* degeneracy or q-weight, frequencies of the wrong rank and static energies
\* of the wrong rank (not configurations by volumes) each fail.
C12_ConstructionRejectsInvalid ==
    (Constructed /\ InvalidForCombiner) => call.out.kind = "raise"

TemperatureArrayRead == call.fn = "temperature_array" /\ call.phase = "out"

\* C14: temperature_array has NT + 4 elements, element n being
\* T_MIN + n * DT, and reading it raises an error whenever T_MIN < 0.
C14_TemperatureAxis ==
    TemperatureArrayRead =>
        IF call.args.T_MIN[1] < 0 THEN call.out.kind = "raise"
        ELSE /\ call.out.kind = "ok"
             /\ Len(call.out.value) = call.args.NT + 4
             /\ \A n \in 0..(call.args.NT + 3) :
                    call.out.value[n + 1] = RAdd(call.args.T_MIN, RMul(RInt(n), call.args.DT))

C14_Witness ==
    /\ TemperatureArrayRead /\ call.args.T_MIN = Rat(1, 2) /\ call.args.NT = 1
    /\ call.args.DT = Rat(3, 2) /\ call.out.kind = "ok" /\ Len(call.out.value) = 5
    /\ call.out.value[5] = Rat(13, 2)

TablesWritten == call.fn = "save" /\ call.phase = "out" /\ call.out.kind = "ok"

\* The temperatures whose rows a table holds.
RowLabels(table) == {table[i].index : i \in 1..Len(table)}

\* The axis indices among the first NT that the sample takes.
SampledAmongFirstNT ==
    {n \in 0..(call.args.d.NT - 1) : n % int(RDiv(call.args.d.DT_SAMPLE, call.args.d.DT)) = 0}

AxisAt(n) == RAdd(call.args.d.T_MIN, RMul(RInt(n), call.args.d.DT))

\* C15: every written table drops the 4 padded temperatures and nothing else:
\* save_x_tp writes a row for each of the first NT temperatures, save_x_tv a
\* row for every sampled temperature among the first NT.
C15_TablesDropOnlyPadding ==
    TablesWritten =>
        /\ Len(call.out.value.tp) = call.args.d.NT
        /\ RowLabels(call.out.value.tp) = {AxisAt(n) : n \in 0..(call.args.d.NT - 1)}
        /\ Len(call.out.value.tv) = Cardinality(SampledAmongFirstNT)
        /\ RowLabels(call.out.value.tv) = {AxisAt(n) : n \in SampledAmongFirstNT}

PotentialsReturned == call.fn = "thermodynamic_potentials" /\ call.phase = "out"

\* T * S and P * V in the cell (i, j) of the fields the potentials were taken of.
HeatAt(i, j) ==
    RMul(call.args.temperature[i], entropy(call.args.temperature, call.args.free_energies)[i][j])

WorkAt(i, j) == RMul(call.args.ps[i][j], call.args.vs[j])

\* C16: in every (T, V) cell thermodynamic_potentials returns U = F + T * S
\* with S = -dF/dT, H = U + P * V and G = F + P * V, hence H - U = G - F =
\* P * V and H - G = U - F = T * S.
C16_PotentialsAreConsistent ==
    PotentialsReturned =>
        \A i \in 1..Len(call.args.temperature), j \in 1..Len(call.args.vs) :
            /\ call.out.value.U[i][j] = RAdd(call.args.free_energies[i][j], HeatAt(i, j))
            /\ call.out.value.H[i][j] = RAdd(call.out.value.U[i][j], WorkAt(i, j))
            /\ call.out.value.G[i][j] = RAdd(call.args.free_energies[i][j], WorkAt(i, j))
            /\ RSub(call.out.value.H[i][j], call.out.value.U[i][j]) = WorkAt(i, j)
            /\ RSub(call.out.value.G[i][j], call.args.free_energies[i][j]) = WorkAt(i, j)
            /\ RSub(call.out.value.H[i][j], call.out.value.G[i][j]) = HeatAt(i, j)
            /\ RSub(call.out.value.U[i][j], call.args.free_energies[i][j]) = HeatAt(i, j)

C16_Witness ==
    /\ PotentialsReturned
    /\ HeatAt(2, 1) # RZero /\ WorkAt(2, 1) # RZero
    /\ call.out.value.H[2][1] # call.out.value.G[2][1]
    /\ call.out.value.H[2][1] # call.out.value.U[2][1]

GruneisenReturned == call.fn = "gruneisen_parameter" /\ call.phase = "out"

\* alpha * Bt * V in the cell (i, j) of the fields the parameter was taken of.
AlphaBtV(i, j) == RMul(RMul(call.args.alpha[i][j], call.args.bt[i][j]), call.args.vs[i][j])

\* C17: gruneisen_parameter returns 0 in every column of the row of the
\* lowest temperature, whatever its inputs (a heat capacity of 0 there is not
\* divided by), and alpha * Bt * V / Cv in every cell of every other row.
C17_GruneisenRows ==
    GruneisenReturned =>
        \A i \in 1..Len(call.args.vs), j \in 1..Len(call.args.vs[1]) :
            IF i = 1 THEN call.out.value[i][j] = RZero
            ELSE IF call.args.cv[i][j] # RZero
                 THEN call.out.value[i][j] = RDiv(AlphaBtV(i, j), call.args.cv[i][j])
                 ELSE call.out.value[i][j][2] = 0

C17_Witness ==
    /\ GruneisenReturned
    /\ call.args.cv[1][1] = RZero /\ AlphaBtV(1, 1) # RZero /\ call.out.value[1][1] = RZero
    /\ call.args.cv[2][1] = RInt(2) /\ call.out.value[2][1] = Rat(3, 2)

DerivativesReturned == call.fn = "calculate_derivatives" /\ call.phase = "out"

\* (f[i+1] - f[i-1]) / (x[i+1] - x[i-1]) of the first column, i an inner index.
CenteredAt(i) ==
    RDiv(RSub(call.args.fs[i + 1][1], call.args.fs[i - 1][1]),
         RSub(call.args.xs[i + 1], call.args.xs[i - 1]))

\* The difference quotient of the end i and its only neighbour.
OneSidedAt(i) ==
    IF i = 1
    THEN RDiv(RSub(call.args.fs[2][1], call.args.fs[1][1]), RSub(call.args.xs[2], call.args.xs[1]))
    ELSE RDiv(RSub(call.args.fs[i][1], call.args.fs[i - 1][1]),
              RSub(call.args.xs[i], call.args.xs[i - 1]))

\* The inner index next to the end i.
InnerNextTo(i) == IF i = 1 THEN 2 ELSE i - 1

\* C18: every derivative value, at every index of the differentiated axis
\* including the first and the last, is a centered finite difference; no
\* one-sided difference is used.  At an end the value is the one-sided
\* quotient only where that is also the centered one of the next inner index.
C18_CenteredEverywhere ==
    DerivativesReturned =>
        \A i \in 1..Len(call.args.xs) :
            IF 1 < i /\ i < Len(call.args.xs)
            THEN /\ call.out.value.dfdx[i][1] = CenteredAt(i)
                 /\ call.out.value.pressure[1][i] = RNeg(CenteredAt(i))
            ELSE /\ call.out.value.dfdx[i][1] = OneSidedAt(i)
                    => OneSidedAt(i) = CenteredAt(InnerNextTo(i))
                 /\ call.out.value.pressure[1][i] = RNeg(OneSidedAt(i))
                    => OneSidedAt(i) = CenteredAt(InnerNextTo(i))

OscillatorReturned == call.fn = "ho_free_energy" /\ call.phase = "out"

\* Half of hbar * w of the oscillator of the call.
ZeroPoint == RMul(<<1, 2>>, RMul(RInt(HBAR), call.args.frequency))

\* C21: ho_free_energy(T, w) is 0 for every w <= 0 at every T >= 0, and for
\* w > 0 the zero-point term plus the thermal term, which at T = 0 is the
\* zero-point energy, a finite number.
C21_OscillatorFreeEnergy ==
    OscillatorReturned =>
        IF call.args.frequency[1] <= 0 THEN call.out.value = RZero
        ELSE /\ call.out.value[2] > 0
             /\ call.out.value =
                    RAdd(ZeroPoint, ThermalTerm(RMul(RInt(HBAR), call.args.frequency),
                                                RMul(RInt(K), call.args.temperature)))
             /\ call.args.temperature = RZero => call.out.value = ZeroPoint

C21_Witness ==
    /\ OscillatorReturned /\ call.args.temperature = RZero /\ call.args.frequency = RInt(2)
    /\ call.out.value = RInt(3)

(***************************************************************************)
(* SpecGrid: calls of FinerGrid.refine_grid                                *)
(***************************************************************************)
MaxDense == 5      \* most points of a dense volume grid

GridVolumes == { <<3, 2>>, <<4, 2>>, <<4, 3, 2>> }

\* The sparse free energies: two temperature rows, the second the first
\* lowered by 1.
GridEnergies(nv) ==
    {<<RVec(e), RVec(Arr([j \in 1..nv |-> e[j] - 1]))>> : e \in [1..nv -> -1..1]}

\* None, or a number.  A ratio that is searched for is searched for with a
\* fit of order 1.
GridRatios == { <<>>, <<<<9, 10>>>>, <<ROne>>, <<<<3, 2>>>> }

RefineGridArgs ==
    UNION {{[p_desire |-> RInt(p), dense_volumes_amount |-> n, option |-> o,
             volumes |-> RVec(vr[1]), free_energies |-> f, ratio |-> vr[2]] :
               p \in -1..1, n \in (Len(vr[1]) + 1)..MaxDense,
               o \in 1..(IF vr[2] = <<>> THEN 1 ELSE Len(vr[1]) - 1),
               f \in GridEnergies(Len(vr[1]))} :
           vr \in GridVolumes \X GridRatios}

\* Reference volumes and volumes from 1/2 to 3 in halves, strains from -1/4
\* to 3/2 in quarters.
StrainArgs ==
    {[v0 |-> Rat(a, 2), v |-> Rat(b, 2), f |-> Rat(k, 4)] : a \in 1..6, b \in 1..6, k \in -1..6}

\* Fits of order 1 and 2 on pairwise-distinct strains, as many as the
\* polynomial has coefficients or one more, with values of -1, 0 and 1.
FitStrains == {<<0, 1>>, <<-1, 2>>, <<0, 1, 2>>, <<-1, 0, 2>>, <<0, 1, 2, 3>>, <<-2, -1, 1, 2>>}

FitArgs ==
    {[xs |-> Arr([i \in 1..Len(x) |-> Rat(x[i], 4)]), ys |-> RVec(y), order |-> o] :
        o \in 1..2, x \in FitStrains, y \in UNION {[1..m -> -1..1] : m \in 2..4}}

InitGrid ==
    /\ call \in {[fn |-> "refine_grid", phase |-> "in", args |-> a, out |-> Ok(<<>>)] :
                    a \in RefineGridArgs}
               \cup {[fn |-> "eulerian_strain", phase |-> "in", args |-> a, out |-> Ok(<<>>)] :
                        a \in StrainArgs}
               \cup {[fn |-> "approach_to_best_ratio", phase |-> "in", args |-> a,
                       out |-> Ok(<<>>)] : a \in {b \in RefineGridArgs : b.ratio = <<>>}}
               \cup {[fn |-> "fit", phase |-> "in", args |-> a, out |-> Ok(<<>>)] :
                        a \in {b \in FitArgs : Len(b.ys) = Len(b.xs)
                                                /\ Len(b.xs) \in (b.order + 1)..(b.order + 2)}}
    /\ calc = NoCalc
    /\ run = NoRun

CallRefineGrid ==
    /\ call.fn = "refine_grid" /\ call.phase = "in"
    /\ call' = [call EXCEPT
           !.phase = "out",
           !.out = refine_grid(call.args.p_desire, call.args.dense_volumes_amount,
                               call.args.option, call.args.volumes, call.args.free_energies,
                               call.args.ratio)]
    /\ UNCHANGED <<calc, run>>

\* A volume to its strain and back, and a strain to its volume and back.
CallEulerianStrain ==
    /\ call.fn = "eulerian_strain" /\ call.phase = "in"
    /\ call' = [call EXCEPT
           !.phase = "out",
           !.out = Ok([f_of_v |-> calculate_eulerian_strain(call.args.v0, call.args.v),
                       v_of_f |-> from_eulerian_strain(call.args.v0, call.args.f),
                       v_back |-> from_eulerian_strain(call.args.v0,
                                      calculate_eulerian_strain(call.args.v0, call.args.v)),
                       f_back |-> calculate_eulerian_strain(call.args.v0,
                                      from_eulerian_strain(call.args.v0, call.args.f))])]
    /\ UNCHANGED <<calc, run>>

\* A fit evaluated back at the strains it was made on.
CallFit ==
    /\ call.fn = "fit" /\ call.phase = "in"
    /\ call' = [call EXCEPT
           !.phase = "out",
           !.out = polynomial_least_square_fitting(call.args.xs, call.args.ys, call.args.xs,
                                                   call.args.order)]
    /\ UNCHANGED <<calc, run>>

\* The trial grid vr of approach_to_best_ratio, the pressures p_v_tmax on it
\* and the ratio returned.
TrialOn(a, vr) ==
    Then(FittedValues(StrainsOf(a.volumes[1], a.volumes), a.free_energies[Len(a.free_energies)],
                      vr.strains, a.option),
         LAMBDA f_v_tmax :
             Ok([finer_volumes |-> vr.out_volumes,
                 p_v_tmax |-> NegQuotient(gradient(f_v_tmax), gradient(vr.out_volumes)),
                 final_ratio |-> ApproachOn(a.p_desire, a.option, a.volumes,
                                            a.free_energies[Len(a.free_energies)], vr).value]))

\* approach_to_best_ratio as refine_grid calls it: on the free energies of
\* the highest temperature, from the initial ratio.
CallApproachToBestRatio ==
    /\ call.fn = "approach_to_best_ratio" /\ call.phase = "in"
    /\ call' = [call EXCEPT
           !.phase = "out",
           !.out = TrialOn(call.args, interpolate_volumes(call.args.volumes,
                                                          call.args.dense_volumes_amount,
                                                          InitialRatio))]
    /\ UNCHANGED <<calc, run>>

NextGrid == CallRefineGrid \/ CallEulerianStrain \/ CallFit \/ CallApproachToBestRatio

SpecGrid == InitGrid /\ [][NextGrid]_vars

RefineGridReturned == call.fn = "refine_grid" /\ call.phase = "out" /\ call.out.kind = "ok"

\* C9: the expansion ratio that FinerGrid.refine_grid uses and returns is
\* never below 1.0.
C9_RatioAtLeastOne ==
    RefineGridReturned => RLe(ROne, call.out.value.new_ratio)

\* The ratio was supplied, and refine_grid returned.
RatioSupplied == RefineGridReturned /\ call.args.ratio # <<>>

Between(a, x, b) == (RLe(a, x) /\ RLe(x, b)) \/ (RLe(b, x) /\ RLe(x, a))

\* C10: for a supplied ratio r the dense volume grid built by refine_grid has
\* exactly the configured number of points, starts at max(sparse) * r, ends
\* at min(sparse) / r and has every point in between; with r = 1 its minimum
\* and maximum are the minimum and maximum of the sparse grid, and no dense
\* volume lies outside the sparse range.
C10_DenseGridOfSuppliedRatio ==
    RatioSupplied =>
        LET r      == call.args.ratio[1]
            sparse == call.args.volumes
            dense  == call.out.value.finer_volumes
            n      == call.args.dense_volumes_amount
        IN  /\ Len(dense) = n
            /\ dense[1] = RMul(RMaxSeq(sparse), r)
            /\ dense[n] = RDiv(RMinSeq(sparse), r)
            /\ \A i \in 1..n : Between(dense[1], dense[i], dense[n])
            /\ r = ROne => /\ RMinSeq(dense) = RMinSeq(sparse)
                           /\ RMaxSeq(dense) = RMaxSeq(sparse)
                           /\ \A i \in 1..n : Between(RMinSeq(sparse), dense[i], RMaxSeq(sparse))

\* A dense grid of a supplied ratio of 1 whose second point lies strictly
\* inside the sparse range.
C10_Witness ==
    /\ RatioSupplied
    /\ call.args.ratio[1] = ROne
    /\ Len(call.args.volumes) = 3
    /\ call.out.value.finer_volumes[1] = RMaxSeq(call.args.volumes)
    /\ RLt(RMinSeq(call.args.volumes), call.out.value.finer_volumes[2])
    /\ RLt(call.out.value.finer_volumes[2], RMaxSeq(call.args.volumes))

StrainReturned == call.fn = "eulerian_strain" /\ call.phase = "out"

FitReturned == call.fn = "fit" /\ call.phase = "out"

\* C20: polynomial_least_square_fitting of order N on N + 1 or more
\* pairwise-distinct strains, evaluated back at those strains, returns the
\* input value at every one of them.
C20_FitReproducesInput ==
    (FitReturned /\ Len(call.args.xs) >= call.args.order + 1)
    => (call.out.kind = "ok" /\ call.out.value.new_y = call.args.ys)

LagrangeReturned == call.fn = "lagrange" /\ call.phase = "out"

\* The first three nodes are three and pairwise distinct.
ThreeDistinctNodes ==
    /\ call.args.n3 = 3
    /\ call.args.xs[1] # call.args.xs[2] /\ call.args.xs[1] # call.args.xs[3]
    /\ call.args.xs[2] # call.args.xs[3]

FourDistinctNodes == ThreeDistinctNodes /\ \A i \in 1..3 : call.args.xs[i] # call.args.xs[4]

\* The value is the one of the interpolating polynomial through the first n
\* nodes: y_i at the node x_i, and c at x when the values are those of a
\* polynomial c of degree below n.
Interpolates(value, n) ==
    /\ \A i \in 1..n : call.args.x = call.args.xs[i] => value = call.args.ys[i]
    /\ (call.args.c # <<>> /\ \A k \in (n + 1)..4 : call.args.c[k] = 0)
       => value = Polynomial(call.args.c, call.args.x)

\* C22: lagrange3 and _lagrange4 evaluate the interpolating polynomial
\* through their nodes: y_i at x_i, any polynomial of degree at most 2 (resp.
\* 3) at any x, 5.125 at 2.5 through (0, 2), (1, 4), (3, 5); lagrange3
\* rejects inputs that are not 3 pairwise-distinct nodes.
C22_LagrangeInterpolates ==
    LagrangeReturned =>
        /\ IF ThreeDistinctNodes
           THEN call.out.value.l3.kind = "ok" /\ Interpolates(call.out.value.l3.value, 3)
           ELSE call.out.value.l3 = Raise("ValueError")
        /\ FourDistinctNodes
           => call.out.value.l4.kind = "ok" /\ Interpolates(call.out.value.l4.value, 4)
        /\ (ThreeDistinctNodes /\ SubSeq(call.args.xs, 1, 3) = RVec(<<0, 1, 3>>)
            /\ SubSeq(call.args.ys, 1, 3) = RVec(<<2, 4, 5>>) /\ call.args.x = Rat(5, 2))
           => call.out.value.l3.value = Rat(41, 8)

C22_Witness ==
    /\ LagrangeReturned /\ call.args.xs = RVec(<<0, 1, 3, 4>>)
    /\ call.args.ys = RVec(<<2, 4, 5, 0>>) /\ call.args.x = Rat(5, 2)
    /\ call.out.value.l3 = Ok(Rat(41, 8)) /\ call.out.value.l4.kind = "ok"

FindNearestReturned == call.fn = "find_nearest" /\ call.phase = "out"

ApproachReturned ==
    call.fn = "approach_to_best_ratio" /\ call.phase = "out" /\ call.out.kind = "ok"

\* The trial-grid indices whose pressure is at or below the desired one.
AtOrBelowDesired ==
    {i \in 1..Len(call.out.value.p_v_tmax) :
        RLe(call.out.value.p_v_tmax[i], gpa_to_ry_b3(call.args.p_desire))}

\* C24: in approach_to_best_ratio, walking the trial grid from its largest
\* volume to its smallest, the index chosen is the first whose pressure is at
\* or below the desired minimum pressure, and the ratio returned is the trial
\* volume at that index over the largest sparse volume.
C24_RatioAtFirstPressureAtOrBelow ==
    (ApproachReturned /\ AtOrBelowDesired # {})
    => /\ \A i \in 1..(Len(call.out.value.finer_volumes) - 1) :
              RLt(call.out.value.finer_volumes[i + 1], call.out.value.finer_volumes[i])
       /\ \A i \in AtOrBelowDesired :
              (\A k \in AtOrBelowDesired : i <= k)
              => call.out.value.final_ratio =
                     RDiv(call.out.value.finer_volumes[i], RMaxSeq(call.args.volumes))

\* C27: when DifferentPhDOSCalculator.read_input raises, none of the stored
\* input fields of the calculator (formula unit number, volumes, static
\* energies, frequencies, q-weights, degeneracies) has been modified by the
\* call.
C27_RaisingReadInputKeepsInput ==
    (call.fn = "read_input" /\ call.phase = "out" /\ call.out.out.kind = "raise")
    => call.out.stored = call.args.stored

\* The rows 0..NT-1 of every property, or the error the calculation ended
\* with.
TrimmedProperties(out) ==
    IF out.kind = "raise" THEN out
    ELSE Ok([k \in DOMAIN out.value |-> SubSeq(out.value[k], 1, Len(out.value[k]) - 4)])

C29_ColdRowIsRowOfOneKelvin ==
    (call.fn = "DifferentPhDOSCalculator.vib_ry" /\ call.phase = "out"
        /\ call.out.kind = "ok"
        /\ call.args.temperatures[1] = RZero /\ call.args.temperatures[2] = ROne)
    => call.out.value[1] = call.out.value[2]

\* vib_ry has returned for temperatures 0, 1, 2, ... with rows that change
\* with the temperature from 1 K on.
C29_Witness ==
    /\ call.fn = "DifferentPhDOSCalculator.vib_ry" /\ call.phase = "out"
    /\ call.out.kind = "ok"
    /\ call.args.temperatures[1] = RZero /\ call.args.temperatures[2] = ROne
    /\ Len(call.args.degeneracies) = 2
    /\ call.out.value[2] # call.out.value[3]

(***************************************************************************)
(* Claims on v2p                                                           *)
(***************************************************************************)
V2PReturned == call.fn = "v2p" /\ call.phase = "out"

\* Every desired pressure lies on or between the first and the last grid
\* pressure of every temperature row.
V2PDesiredWithinGrid ==
    \A i \in 1..Len(call.args.p) : \A j \in 1..Len(call.args.desired) :
        /\ RLe(call.args.p[i][1], call.args.desired[j])
        /\ RLe(call.args.desired[j], call.args.p[i][Len(call.args.p[i])])

\* Every desired pressure lies on or above the first and strictly below the
\* last grid pressure of every temperature row.
V2PDesiredBelowLast ==
    \A i \in 1..Len(call.args.p) : \A j \in 1..Len(call.args.desired) :
        /\ RLe(call.args.p[i][1], call.args.desired[j])
        /\ RLt(call.args.desired[j], call.args.p[i][Len(call.args.p[i])])

\* C6: for every temperature row i with strictly increasing pressures on
\* n >= 4 columns and every grid index m, a desired pressure equal to P[i,m]
\* makes v2p return exactly F[i,m] in that row and that desired pressure's
\* column.  (Stated for as many desired pressures as volume columns, all of
\* them within the row's grid pressures.)
C6_ExactAtGridPressures ==
    (V2PReturned /\ Len(call.args.desired) = Len(call.args.f[1]) /\ V2PDesiredWithinGrid)
        => \A i \in 1..Len(call.args.p) : \A j \in 1..Len(call.args.desired) :
              \A m \in 1..Len(call.args.p[i]) :
                 call.args.desired[j] = call.args.p[i][m]
                     => /\ call.out.kind = "ok"
                        /\ call.out.value[i][j] = call.args.f[i][m]

\* C7: for a field with n volume columns and a desired-pressure axis of any
\* length m, v2p returns one row per temperature with exactly m columns, one
\* per desired pressure.  (Stated for desired pressures that every row
\* brackets, so that no cell is out of range.)
C7_OneColumnPerDesiredPressure ==
    (V2PReturned /\ V2PDesiredBelowLast)
        => /\ call.out.kind = "ok"
           /\ Len(call.out.value) = Len(call.args.f)
           /\ \A i \in 1..Len(call.out.value) :
                 Len(call.out.value[i]) = Len(call.args.desired)

\* The index that the search on the padded row i writes for the desired
\* pressure j, and the window of pressures sliced at it.
WindowIndex(i, j) ==
    vectorized_find_nearest(ExtendRow(call.args.p[i]), <<call.args.desired[j]>>)[1]

Window(i, j) == PySlice(ExtendRow(call.args.p[i]), WindowIndex(i, j) - 1, WindowIndex(i, j) + 3)

\* The window w at the index k of a row of n grid pressures: four distinct
\* points of the row, the inner ones next to each other and around the
\* desired pressure d, the outer ones their neighbours or, at an end of the
\* row, the point of column 3, resp. n - 4.
WindowBrackets(row, k, w, d) ==
    /\ Len(w) = 4 /\ Distinct4(w[1], w[2], w[3], w[4])
    /\ k \in 1..(Len(row) - 1)
    /\ w[2] = row[k] /\ w[3] = row[k + 1]
    /\ RLe(w[2], d) /\ RLt(d, w[3])
    /\ w[1] = (IF k = 1 THEN row[4] ELSE row[k - 1])
    /\ w[4] = (IF k = Len(row) - 1 THEN row[Len(row) - 3] ELSE row[k + 2])

\* C25: in v2p, for every row of strictly increasing pressures and every
\* desired pressure p with P[i, 0] <= p < P[i, n - 1], the window interpolated
\* on is 4 pairwise-distinct grid points of the row whose middle nodes bracket
\* p; at an end of the row the outer node is the padded point, of column 3,
\* resp. n - 4.
C25_WindowBracketsDesired ==
    V2PReturned =>
        \A i \in 1..Len(call.args.p) : \A j \in 1..Len(call.args.desired) :
            (RLe(call.args.p[i][1], call.args.desired[j])
             /\ RLt(call.args.desired[j], call.args.p[i][Len(call.args.p[i])]))
            => WindowBrackets(call.args.p[i], WindowIndex(i, j), Window(i, j),
                              call.args.desired[j])

C25_Witness ==
    /\ V2PReturned /\ call.out.kind = "ok" /\ Len(call.args.p[1]) = 4
    /\ \E j \in 1..Len(call.args.desired) :
          WindowIndex(1, j) = 1 /\ Window(1, j)[1] = call.args.p[1][4]
    /\ \E j \in 1..Len(call.args.desired) :
          WindowIndex(1, j) = 3 /\ Window(1, j)[4] = call.args.p[1][1]

(***************************************************************************)
(* The calculator and the runner: specification Spec                       *)
(*                                                                         *)
(* A behaviour is either a program that holds one Calculator and calls its *)
(* methods and reads its properties in any order, or one execution of      *)
(* QHARunner.run on a settings file, step by step.  call is the last call  *)
(* made on the calculator and what it left; run is the position of the     *)
(* runner, the result tables it has written so far and the error that      *)
(* ended it.                                                               *)
(***************************************************************************)
\* The data sets an input file can hold: two volumes, two q-points of one
\* mode each.  The first has a mode that stiffens under compression, the
\* second other volumes, other energies and a negative frequency, the third
\* lists its volumes in increasing order and the last one lists the same
\* volume twice.
InputData ==
    { [formula_unit_number |-> 1, volumes |-> RVec(<<12, 3>>),
       static_energies |-> RVec(<<0, 90>>), q_weights |-> RVec(<<1, 1>>),
       frequencies |-> RFreq(<<<<<<0>>, <<0>>>>, <<<<12>>, <<12>>>>>>)],
      [formula_unit_number |-> 1, volumes |-> RVec(<<24, 6>>),
       static_energies |-> RVec(<<0, 72>>), q_weights |-> RVec(<<1, 1>>),
       frequencies |-> RFreq(<<<<<<0>>, <<0>>>>, <<<<-1>>, <<0>>>>>>)],
      [formula_unit_number |-> 1, volumes |-> RVec(<<3, 12>>),
       static_energies |-> RVec(<<90, 0>>), q_weights |-> RVec(<<1, 1>>),
       frequencies |-> RFreq(<<<<<<12>>, <<12>>>>, <<<<0>>, <<0>>>>>>)],
      [formula_unit_number |-> 1, volumes |-> RVec(<<12, 12>>),
       static_energies |-> RVec(<<0, 90>>), q_weights |-> RVec(<<1, 1>>),
       frequencies |-> RFreq(<<<<<<0>>, <<0>>>>, <<<<12>>, <<12>>>>>>)] }

\* Five temperatures (NT + 4), four dense volumes and four desired pressures.
BaseSettings ==
    [T_MIN |-> RZero, NT |-> 1, DT |-> RInt(18), P_MIN |-> RInt(12), NTV |-> 4,
     DELTA_P |-> ROne, p_min_modifier |-> ROne, order |-> 1, static_only |-> FALSE,
     high_verbosity |-> FALSE, output_directory |-> "./results/", volume_ratio |-> ROne,
     input |-> "input01", thermodynamic_properties |-> <<"F">>, calculation |-> "single",
     qha_output |-> "./results/output.txt", absent |-> {}]

\* The lowest desired pressures: below the dense field at some temperature,
\* inside it at every temperature, and with the highest one above it.
MinPressures == { RInt(6), RInt(12), RInt(22) }

\* The settings of the calculators that are driven call by call: every
\* option given, or the number of pressures or the output file left out.
ApiSettings ==
    { [BaseSettings EXCEPT !.P_MIN = p, !.static_only = so, !.absent = ab] :
        p \in MinPressures, so \in BOOLEAN, ab \in { {}, {"NTV"}, {"qha_output"} } }

\* The settings files the runner is started on: every option given, or one
\* left out, or the calculation not one of the known ones.  No file names
\* the output file, which run names itself.
RunSettings ==
    { [BaseSettings EXCEPT !.P_MIN = x[1], !.T_MIN = x[2], !.absent = x[3],
                           !.thermodynamic_properties = x[4], !.calculation = x[5]] :
        x \in MinPressures \X { RInt(-18), RZero }
              \X { {"qha_output"} \cup ab :
                       ab \in { {} } \cup { {k} : k \in { "input", "NTV",
                                                          "thermodynamic_properties",
                                                          "high_verbosity", "output_directory",
                                                          "calculation", "volume_ratio" } } }
              \X { <<"F">>, <<"G", "V">>, <<"U", "H">> }
              \X { "single", "unknown" } }

NoFiles == <<>>

\* cli/parser.py: the handlers registered with the QHAArgumentParser, the one
\* of the sub-command run being a QHARunner, and the commands a namespace can
\* hold: a registered one, or None when no sub-command was given.
handlers == [run |-> "QHARunner"]

Commands == {"run", "None"}

NotRecognized == "ValueError: Command is not recognized!"

Init ==
    /\ call = NoCall
    /\ \/ /\ calc \in { Calculator(s) : s \in ApiSettings }
          /\ run = NoRun
       \/ /\ calc = NoCalc
          /\ run \in { [pc |-> "invoke_handler", command |-> c, user_settings |-> s, data |-> d,
                        files |-> NoFiles, error |-> "", raised |-> "", todo |-> <<>>] :
                          c \in Commands, s \in RunSettings, d \in InputData }
          /\ run.command \in DOMAIN handlers \/ run.user_settings.absent = {"qha_output"}

Called(fn, name, left) == [fn |-> fn, phase |-> "out", name |-> name, out |-> left.out]

\* A call made by the program that holds the calculator, and what it left.
Calls(fn, name, left) ==
    /\ run.pc = "idle"
    /\ calc' = left.calc
    /\ call' = Called(fn, name, left)
    /\ UNCHANGED run

\* calc.read_input() on an input file that holds data.
ReadInput(data) == Calls("read_input", "", Calculator_read_input(calc, data))

\* calc.refine_grid()
RefineGrid == Calls("refine_grid", "", Calculator_refine_grid(calc))

\* calc.desired_pressure_status()
DesiredPressureStatus ==
    Calls("desired_pressure_status", "", Calculator_desired_pressure_status(calc))

ReadableNames ==
    { "vib_ry", "p_tv_au", "f_tp_ry", "where_negative_frequencies" }

\* A read of the property name of the calculator.
ReadProperty(name) == Calls("read", name, GetProperty(calc, name))

(***************************************************************************)
(* cli/runner.py: QHARunner.run, one action per stretch of the method      *)
(* between two calls that can end it                                       *)
(***************************************************************************)
Failed(error) == [run EXCEPT !.pc = "failed", !.error = error]

At(pc) == [run EXCEPT !.pc = pc]

\* A call made by run: run goes on as then_run if the call returns, and ends
\* with the error if it raises.
RunCalls(fn, name, left, then_run) ==
    /\ calc' = left.calc
    /\ call' = Called(fn, name, left)
    /\ run' = IF left.out.kind = "ok" THEN then_run ELSE Failed(left.out.error)

\* calc.temperature_array and calc.desired_pressures_gpa of a new calculator.
RangesOf(c) == Bind(get_temperature_array(c), LAMBDA c1, t : get_desired_pressures_gpa(c1))

\* The user settings of a run: the options of the settings file, the default
\* ones for those it leaves out, and the output file in the output directory.
UserSettings(settings) ==
    [settings EXCEPT
         !.order = Defaulted(settings, "order"),
         !.p_min_modifier = Defaulted(settings, "p_min_modifier"),
         !.DELTA_P = Defaulted(settings, "DELTA_P"),
         !.static_only = Defaulted(settings, "static_only"),
         !.output_directory = Defaulted(settings, "output_directory"),
         !.high_verbosity = Defaulted(settings, "high_verbosity"),
         !.qha_output = "./results/output.txt",
         !.absent = (settings.absent \ DOMAIN DEFAULT_SETTING) \ {"qha_output"}]

\* Up to the first lines written to the output file: the user settings, the
\* output directory, the calculator of the calculation type, the temperature
\* and pressure range.
RunStart ==
    /\ run.pc = "start"
    /\ IF ~Has(run.user_settings, "calculation")
       THEN /\ run' = Failed("KeyError")
            /\ UNCHANGED <<calc, call>>
       ELSE IF run.user_settings.calculation # "single"
       THEN /\ run' = Failed("ValueError")
            /\ UNCHANGED <<calc, call>>
       ELSE RunCalls("Calculator", "",
                     RangesOf(Calculator(UserSettings(run.user_settings))),
                     [run EXCEPT !.pc = "read_input",
                                 !.user_settings = UserSettings(run.user_settings)])

\* calc.read_input() and the report of the negative frequencies.
RunReadInput ==
    /\ run.pc = "read_input"
    /\ RunCalls("read_input", "",
                Bind(Calculator_read_input(calc, run.data),
                     LAMBDA c1, none : get_where_negative_frequencies(c1)),
                At("refine_grid"))

\* calc.refine_grid() and the report of the ratio under high verbosity.
RunRefineGrid ==
    /\ run.pc = "refine_grid"
    /\ RunCalls("refine_grid", "", Calculator_refine_grid(calc), At("desired_pressure_status"))

\* calc.desired_pressure_status() and the sample arrays.
RunDesiredPressureStatus ==
    /\ run.pc = "desired_pressure_status"
    /\ RunCalls("desired_pressure_status", "", Calculator_desired_pressure_status(calc),
                At("save_x_tv"))

\* The tables on the (T, V) grid, in the order run writes them.
TvFiles == << "f_tv_fitted_ev_ang3.txt", "f_tv_nonfitted_ev_ang3.txt", "p_tv_gpa.txt",
              "s_tv_j.txt" >>

\* The file is written; after the last one the loop over the thermodynamic
\* properties of the settings begins.
SavedTv(written, last) ==
    IF ~last THEN written
    ELSE IF ~Has(calc.settings, "thermodynamic_properties")
    THEN [written EXCEPT !.pc = "failed", !.error = "KeyError"]
    ELSE IF calc.settings.thermodynamic_properties = <<>> THEN [written EXCEPT !.pc = "done"]
    ELSE [written EXCEPT !.pc = "save_x_tp", !.todo = calc.settings.thermodynamic_properties]

\* One save_x_tv call of run.
RunSaveTv ==
    /\ run.pc = "save_x_tv"
    /\ run' = SavedTv([run EXCEPT !.files = Append(run.files, TvFiles[Len(run.files) + 1])],
                      Len(run.files) + 1 = Len(TvFiles))
    /\ UNCHANGED <<calc, call>>

\* calculation_option[idx] with the unit of the energies or of the volumes.
TpAttribute(idx) ==
    CASE idx = "F" -> "f_tp_ry"
      [] idx = "G" -> "g_tp_ry"
      [] idx = "H" -> "h_tp_ry"
      [] idx = "U" -> "u_tp_ry"
      [] idx = "V" -> "v_tp_bohr3"

TpFiles(idx) ==
    IF idx = "V" THEN << "v_tp_bohr3.txt", "v_tp_ang3.txt" >>
    ELSE << TpAttribute(idx) \o ".txt" >>

\* One pass of the loop over the thermodynamic properties: the property is
\* read from the calculator and its table written.
RunSaveTp ==
    /\ run.pc = "save_x_tp"
    /\ RunCalls("read", TpAttribute(Head(run.todo)),
                GetProperty(calc, TpAttribute(Head(run.todo))),
                [run EXCEPT !.files = run.files \o TpFiles(Head(run.todo)),
                            !.todo = Tail(run.todo),
                            !.pc = IF Tail(run.todo) = <<>> THEN "done" ELSE "save_x_tp"])

\* QHAArgumentParser.invoke_handler up to the call of handler.run: the
\* KeyError of a command without a handler is raised as the ValueError.
InvokeHandler ==
    /\ run.pc = "invoke_handler"
    /\ run' = IF run.command \in DOMAIN handlers THEN At("start")
              ELSE [run EXCEPT !.pc = "raised", !.raised = NotRecognized]
    /\ UNCHANGED <<calc, call>>

\* handler.run has returned or raised inside the try statement of
\* invoke_handler: a KeyError is caught and the ValueError raised in its
\* place, any other exception goes on to the caller.
HandlerRunEnds ==
    /\ run.pc \in {"done", "failed"}
    /\ run' = IF run.pc = "done" THEN At("returned")
              ELSE [run EXCEPT !.pc = "raised",
                               !.raised = IF run.error = "KeyError" THEN NotRecognized
                                          ELSE run.error]
    /\ UNCHANGED <<calc, call>>

Next ==
    \/ \E data \in InputData : ReadInput(data)
    \/ RefineGrid
    \/ DesiredPressureStatus
    \/ \E name \in ReadableNames : ReadProperty(name)
    \/ RunStart
    \/ RunReadInput
    \/ RunRefineGrid
    \/ RunDesiredPressureStatus
    \/ RunSaveTv
    \/ RunSaveTp
    \/ InvokeHandler
    \/ HandlerRunEnds

Spec == Init /\ [][Next]_vars

\* desired_pressure_status has returned or raised, and the calculator holds
\* the dense pressure field and the desired pressures it compared.
StatusCompared ==
    /\ call.fn = "desired_pressure_status"
    /\ calc.cache["p_tv_gpa"] # <<>>
    /\ calc.cache["desired_pressures_gpa"] # <<>>

FieldOfStatus == calc.cache["p_tv_gpa"][1]

DesiredOfStatus == calc.cache["desired_pressures_gpa"][1]

\* Some desired pressure is above the pressure of the last dense volume at
\* some temperature.
SomeDesiredAboveLast ==
    \E i \in 1..Len(FieldOfStatus), j \in 1..Len(DesiredOfStatus) :
        RLt(FieldOfStatus[i][Len(FieldOfStatus[i])], DesiredOfStatus[j])

\* Some desired pressure is below the pressure of the first dense volume at
\* some temperature.
SomeDesiredBelowFirst ==
    \E i \in 1..Len(FieldOfStatus), j \in 1..Len(DesiredOfStatus) :
        RLt(DesiredOfStatus[j], FieldOfStatus[i][1])

StatusRaised == call.out.kind = "raise"

\* C3: desired_pressure_status raises exactly when the largest desired
\* pressure exceeds the minimum over temperatures of the pressure at the last
\* (smallest-volume) dense grid point of the calculator's pressure field; when
\* it does not raise, every desired pressure is at most that pressure at
\* every temperature.
C3_StatusRaisesIffAboveLast ==
    StatusCompared => (StatusRaised <=> SomeDesiredAboveLast)

\* The status check has raised for a range whose smallest desired pressure is
\* within the field at every temperature and whose largest is not.
C3_Witness ==
    /\ StatusCompared
    /\ StatusRaised
    /\ \A i \in 1..Len(FieldOfStatus) :
           RLe(DesiredOfStatus[1], FieldOfStatus[i][Len(FieldOfStatus[i])])

\* C4: a desired pressure below the pressure of the first (largest-volume)
\* dense grid point at some temperature is rejected with an error by the
\* validation step, desired_pressure_status.
C4_StatusRejectsBelowFirst ==
    (StatusCompared /\ SomeDesiredBelowFirst) => StatusRaised

\* C5: a run that fails, whatever the failure, has written no output file.
C5_FailedRunWroteNothing ==
    run.pc = "failed" => run.files = NoFiles

\* The value of a property computed anew from the calculator's current
\* settings, input and dense free-energy field.
Recomputed(c, name) ==
    GetProperty([c EXCEPT !.cache = [n \in LazyNames |-> <<>>]], name).out

\* C8: a read of a derived property returns the value computed from the
\* calculator's current input and current dense free-energy field, also
\* after read_input or refine_grid has been called again.
C8_ReadsAreCurrent ==
    (call.fn = "read" /\ call.name # "where_negative_frequencies" /\ run.pc = "idle"
        /\ call.out.kind = "ok") =>
        call.out = Recomputed(calc, call.name)

StrictlyDecreasing(array) == \A i \in 1..(Len(array) - 1) : RLt(array[i + 1], array[i])

\* C13: read_input rejects every volume sequence that is not strictly
\* decreasing, two equal consecutive volumes included, so a calculator never
\* holds a volume axis with a repeated or an increasing volume.
C13_VolumesStrictlyDecreasing ==
    (calc.made /\ calc.input # <<>>) => StrictlyDecreasing(calc.input[1].volumes)

\* The (volume, q-point, band) indices, from 0, of the negative entries of
\* the frequencies the calculator holds.
NegativeEntries ==
    {t \in (0..(Len(calc.input[1].frequencies) - 1))
              \X (0..(Len(calc.input[1].frequencies[1]) - 1))
              \X (0..(Len(calc.input[1].frequencies[1][1]) - 1)) :
        calc.input[1].frequencies[t[1] + 1][t[2] + 1][t[3] + 1][1] < 0}

\* C26: once read_input has loaded data, where_negative_frequencies returns
\* the indices of all negative entries of the loaded frequencies (None when
\* there are none), whatever was read before read_input, an earlier read of
\* where_negative_frequencies included.
C26_NegativeFrequenciesAreCurrent ==
    (call.fn = "read" /\ call.name = "where_negative_frequencies" /\ run.pc = "idle"
        /\ calc.input # <<>>)
    => /\ call.out.kind = "ok"
       /\ {call.out.value[i] : i \in 1..Len(call.out.value)} = NegativeEntries
       /\ Len(call.out.value) = Cardinality(NegativeEntries)

\* C30: invoke_handler raises the "Command ... is not recognized" error only
\* when no handler is registered for the command; an exception raised inside
\* the run of a registered handler reaches the caller unchanged.
C30_NotRecognizedOnlyWithoutHandler ==
    run.pc = "raised"
    => /\ run.raised = NotRecognized => run.command \notin DOMAIN handlers
       /\ run.command \in DOMAIN handlers => run.raised = run.error

====
